---- MODULE Spec2Model ----
(***************************************************************************)
(* A model of capnp-nonblock: the segment table codec (lib.rs), the        *)
(* reference counted slab (buf.rs) and the resumable MessageStream read    *)
(* and write paths (lib.rs).                                               *)
(*                                                                         *)
(* Bytes are integers 0..255, byte strings are sequences.  An Option is a  *)
(* sequence of length 0 (None) or 1 (Some).  Each handler of the stream is *)
(* one action; the transport's answers to the reads or writes made during  *)
(* one call are an input of the action (a script).                         *)
(***************************************************************************)
EXTENDS Integers, Sequences, FiniteSets, TLC

VARIABLES
    \* ---- codec harness (pure functions) ----
    c_ws,           \* word lengths handed to serialize_segment_table
    c_bytes,        \* the serialized segment table
    c_res,          \* the result of parse_segment_table on c_bytes
    c_pc,           \* "init" | "serialized" | "parsed"
    \* ---- MessageStream, read side ----
    rd_wire,        \* bytes the transport has not handed out yet
    rd_closed,      \* whether the transport reports end of input once drained
    slabs,          \* every RawBuf allocated so far: [cap, data, rc]
    buf,            \* MessageStream.buf: index in slabs of the active MutBuf
    buf_offset,     \* MessageStream.buf_offset
    remaining_segments, \* MessageStream.remaining_segments
    segments,       \* MessageStream.segments (views: [slab, ptr, len])
    traversal_limit_in_words, \* MessageStream.options.traversal_limit_in_words
    rd_delivered,   \* the messages read_message has returned, in order
    rd_result,      \* outcome of the last read_message call
    rd_next,        \* what Iterator::next returned for it: "None" | "Some"
    rd_src,         \* the messages framed on the transport (history)
    rd_decode_failed, \* a decode error has been returned (history)
    sb_call,        \* the last call made on the slab directly: [op, amount, res]
    \* ---- MessageStream, write side ----
    write_queue,    \* MessageStream.write_queue
    current_write,  \* MessageStream.current_write (Option)
    current_segment_table, \* MessageStream.current_segment_table
    current_segment, \* MessageStream.current_segment: <<index, offset>>
    wr_out,         \* bytes the transport has accepted, in order
    wr_result,      \* outcome of the last write / write_message call
    wr_enqueued,    \* every message passed to write_message, in order
    wr_call,        \* the last handler called: "write" | "write_message"
    wr_blocked,     \* the last call ended on a WouldBlock of the transport
    wr_resumed      \* some call resumed a message left unfinished by WouldBlock

codec_vars == <<c_ws, c_bytes, c_res, c_pc>>
read_vars  == <<rd_wire, rd_closed, slabs, buf, buf_offset, remaining_segments,
                segments, traversal_limit_in_words, rd_delivered, rd_result,
                rd_src, rd_decode_failed, sb_call, rd_next>>
write_vars == <<write_queue, current_write, current_segment_table,
                current_segment, wr_out, wr_result, wr_enqueued, wr_call, wr_blocked,
                wr_resumed>>
vars == <<codec_vars, read_vars, write_vars>>

(***************************************************************************)
(* Bounds of the model.                                                    *)
(***************************************************************************)
\* segments per header in the codec harness
MaxTableSegs == 3
\* words per segment on the stream
MaxWords == 1
\* messages framed on the inbound transport
MaxMsgs == 2
\* successful transport reads within one read_message call
MaxReads == 1
\* messages passed to write_message
MaxEnq == 2
\* transport write calls answered before the script's final answer
MaxWrites == 2
\* bytes after the count field in the short inputs of the parser
MaxRawTail == 12
\* bytes of a parser input that the stream's transport carries
MaxHeadLen == 16
\* views alive at the same time in the slab harness
MaxViews == 2
\* bytes the reader of the slab harness holds
MaxSlabWire == 4
\* bytes appended to one slab through MutBuf::write in the slab harness
MaxSlabData == 4
\* reads the cursor answers in one call of next
MaxCursorReads == 3
\* the reads the transport answers with data in one call on a message in progress
MaxRetryReads == 2
\* bytes passed to one call of MutBuf::write in the append harness
MaxAppend == 11

(***************************************************************************)
(* Program constants.                                                      *)
(***************************************************************************)
\* buf.rs:7
BUF_SIZE == 4096
\* lib.rs:328, the first invalid segment count
SEGMENT_COUNT_LIMIT == 512
\* mem::size_of::<u64>(), buf.rs:181
REFCOUNT_LEN == 8
\* bytes per capnp::Word, lib.rs:335
BYTES_PER_WORD == 8
\* traversal_limit_in_words of ReaderOptions::new(): 8 * 1024 * 1024 words
DEFAULT_TRAVERSAL_LIMIT == 8388608

\* a u32 is kept as its two 16 bit halves, so that no arithmetic leaves 32 bits
\* [lo, hi], and lengths are converted to numbers only below 2^31.
Half == 2 ^ 16
ToU32(n) == [lo |-> n % Half, hi |-> n \div Half]
ToNat(x) == x.hi * Half + x.lo

Min(a, b) == IF a < b THEN a ELSE b
Max(a, b) == IF a > b THEN a ELSE b

Drop(s, n) == SubSeq(s, n + 1, Len(s))
Take(s, n) == SubSeq(s, 1, n)

\* a sequence left in the order it has
Reverse_none(s) == s

RECURSIVE Reverse(_)
Reverse(s) == IF s = <<>> THEN <<>> ELSE Reverse(Tail(s)) \o <<Head(s)>>

RECURSIVE Concat(_)
Concat(ss) == IF ss = <<>> THEN <<>> ELSE Head(ss) \o Concat(Tail(ss))

RECURSIVE SeqsUpTo(_, _)
SeqsUpTo(S, n) ==
    IF n = 0 THEN {<<>>}
    ELSE LET shorter == SeqsUpTo(S, n - 1)
         IN  shorter \cup {Append(s, x) : s \in {t \in shorter : Len(t) = n - 1}, x \in S}

IsPrefix(p, s) == Len(p) <= Len(s) /\ Take(s, Len(p)) = p

(***************************************************************************)
(* Segment table codec.                                                    *)
(***************************************************************************)
\* <LittleEndian as ByteOrder>::write_u32, on a number below 2^31 (for which
\* the `as u32` casts of serialize_segment_table change nothing)
write_u32(n) ==
    << n % 256, (n \div 256) % 256, (n \div 65536) % 256, (n \div 16777216) % 256 >>

\* a le_u32 whose Incomplete carries the number of bytes that are missing
le_u32_missing(i) ==
    IF Len(i) < 4
    THEN [tag |-> "Incomplete", needed |-> 4 - Len(i), rest |-> i, out |-> ToU32(0)]
    ELSE [tag |-> "Done", needed |-> 0, rest |-> Drop(i, 4),
          out |-> [lo |-> i[1] + 256 * i[2], hi |-> i[3] + 256 * i[4]]]

\* nom::le_u32: Incomplete(Needed::Size(4)) on fewer than four bytes
le_u32(i) ==
    IF Len(i) < 4
    THEN [tag |-> "Incomplete", needed |-> 4, rest |-> i, out |-> ToU32(0)]
    ELSE [tag |-> "Done", needed |-> 0, rest |-> Drop(i, 4),
          out |-> [lo |-> i[1] + 256 * i[2], hi |-> i[3] + 256 * i[4]]]

\* a count taken from the wire as it is, with nothing added
wrapping_add_0(x) == x

\* u32::wrapping_add(1)
wrapping_add_1(x) ==
    IF x.lo + 1 < Half THEN [lo |-> x.lo + 1, hi |-> x.hi]
    ELSE [lo |-> 0, hi |-> (x.hi + 1) % Half]

\* a segment table without the pad of an even count
serialize_segment_table_nopad(ws) ==
    write_u32(Len(ws) - 1)
        \o [j \in 1..(4 * Len(ws)) |-> write_u32(ws[((j - 1) \div 4) + 1])[((j - 1) % 4) + 1]]

\* serialize_segment_table, on the word lengths of the segments: the count
\* minus one, each length, and four zero bytes when the count is even
serialize_segment_table(ws) ==
    write_u32(Len(ws) - 1)
        \o [j \in 1..(4 * Len(ws)) |-> write_u32(ws[((j - 1) \div 4) + 1])[((j - 1) % 4) + 1]]
        \o (IF Len(ws) % 2 = 0 THEN <<0, 0, 0, 0>> ELSE <<>>)

\* the length pushed for one table entry: `segment_len as usize * 8`
SegmentByteLen(segment_len) == ToNat(segment_len) * BYTES_PER_WORD

\* the for loop of parse_segment_table, n entries to parse from i: each
\* iteration takes four bytes with le_u32 and pushes the byte length; the loop
\* returns Incomplete at the first entry with fewer than four bytes left, the
\* lengths pushed so far staying in the vector
parse_lengths(i, n, lengths) ==
    LET parsed == Min(n, Len(i) \div 4)
    IN  [tag |-> IF parsed < n THEN "Incomplete" ELSE "Done",
         needed |-> IF parsed < n THEN le_u32(Drop(i, 4 * parsed)).needed ELSE 0,
         rest |-> Drop(i, 4 * parsed),
         lengths |-> lengths \o
             [k \in 1..parsed |->
                 SegmentByteLen(le_u32(SubSeq(i, 4 * k - 3, 4 * k)).out)]]

\* a validity test that lets a count of zero through
InvalidSegmentCount_nozero(segment_count) ==
    \/ segment_count.hi > 0
    \/ segment_count.lo >= SEGMENT_COUNT_LIMIT

\* the validity test on the adjusted segment count
InvalidSegmentCount(segment_count) ==
    \/ segment_count.hi > 0
    \/ segment_count.lo >= SEGMENT_COUNT_LIMIT
    \/ (segment_count.hi = 0 /\ segment_count.lo = 0)

\* a pad test with the parity inverted
HasPad_odd(n) == n % 2 = 1

\* the pad test of parse_segment_table: `segment_count % 2 == 0`
HasPad(n) == n % 2 = 0

\* an end of parse_segment_table that accepts only a pad of zero bytes
parse_pad_zeros(input, segment_count, l) ==
    IF l.tag = "Incomplete"
    THEN [tag |-> "Incomplete", needed |-> l.needed, code |-> ToU32(0),
          rest |-> input, lengths |-> l.lengths]
    ELSE IF HasPad(segment_count)
    THEN IF Len(l.rest) < 4 \/ Take(l.rest, 4) # <<0, 0, 0, 0>>
         THEN [tag |-> "Incomplete", needed |-> 4, code |-> ToU32(0),
               rest |-> input, lengths |-> l.lengths]
         ELSE [tag |-> "Done", needed |-> 0, code |-> ToU32(0),
               rest |-> Drop(l.rest, 4), lengths |-> l.lengths]
    ELSE [tag |-> "Done", needed |-> 0, code |-> ToU32(0),
          rest |-> l.rest, lengths |-> l.lengths]

\* the end of parse_segment_table, l the outcome of the for loop
parse_pad(input, segment_count, l) ==
    IF l.tag = "Incomplete"
    THEN [tag |-> "Incomplete", needed |-> l.needed, code |-> ToU32(0),
          rest |-> input, lengths |-> l.lengths]
    ELSE IF HasPad(segment_count)
    THEN IF Len(l.rest) < 4
         THEN [tag |-> "Incomplete", needed |-> 4, code |-> ToU32(0),
               rest |-> input, lengths |-> l.lengths]
         ELSE [tag |-> "Done", needed |-> 0, code |-> ToU32(0),
               rest |-> Drop(l.rest, 4), lengths |-> l.lengths]
    ELSE [tag |-> "Done", needed |-> 0, code |-> ToU32(0),
          rest |-> l.rest, lengths |-> l.lengths]

\* parse_segment_table after the count field has been read as c
parse_counted(input, lengths, c, segment_count) ==
    IF c.tag = "Incomplete"
    THEN [tag |-> "Incomplete", needed |-> c.needed, code |-> ToU32(0),
          rest |-> input, lengths |-> lengths]
    ELSE IF InvalidSegmentCount(segment_count)
    THEN [tag |-> "Error", needed |-> 0, code |-> segment_count,
          rest |-> input, lengths |-> lengths]
    ELSE parse_pad(input, ToNat(segment_count),
                   parse_lengths(c.rest, ToNat(segment_count), lengths))

\* parse_segment_table(input, lengths): the result, and the vector as the call
\* leaves it (`code` is the u32 carried by ErrorKind::Custom)
parse_segment_table(input, lengths) ==
    parse_counted(input, lengths, le_u32(input), wrapping_add_1(le_u32(input).out))

(***************************************************************************)
(* The slab: RawBuf / MutBuf / Buf (buf.rs).  A slab is [cap, data, rc]:   *)
(* cap is RawBuf.len, data the committed bytes (MutBuf.offset = Len(data)),*)
(* rc the reference count kept in front of the payload.                    *)
(***************************************************************************)
\* RawBuf::new(len)
RawBuf_new(len) ==
    [cap |-> Max(REFCOUNT_LEN, len) - REFCOUNT_LEN, data |-> <<>>, rc |-> 1,
     freed |-> 0]

\* <RawBuf as Clone>::clone: one more handle on the allocation
RawBuf_clone(raw) == [raw EXCEPT !.rc = @ + 1]

\* <RawBuf as Drop>::drop: the count goes down and the allocation is freed
\* when it reaches zero (freed counts the calls of heap::deallocate)
RawBuf_drop(raw) ==
    [raw EXCEPT !.rc = @ - 1, !.freed = IF raw.rc - 1 = 0 THEN @ + 1 ELSE @]

\* MutBuf::with_capacity(cap)
MutBuf_with_capacity(cap) == RawBuf_new(cap)

\* MutBuf::new()
MutBuf_new == MutBuf_with_capacity(BUF_SIZE)

\* a write that starts at the front of the slab instead of its write offset
MutBuf_write_front(slab, bytes) ==
    LET count == Min(Len(bytes), slab.cap - Len(slab.data))
    IN  [slab |-> [slab EXCEPT !.data = Take(bytes, count) \o @], count |-> count]

\* a write that reports every byte it was given as written
MutBuf_write_whole(slab, bytes) ==
    LET count == Min(Len(bytes), slab.cap - Len(slab.data))
    IN  [slab |-> [slab EXCEPT !.data = @ \o Take(bytes, count)],
         count |-> Len(bytes)]

\* <MutBuf as io::Write>::write
MutBuf_write(slab, bytes) ==
    LET count == Min(Len(bytes), slab.cap - Len(slab.data))
    IN  [slab |-> [slab EXCEPT !.data = @ \o Take(bytes, count)], count |-> count]

\* a MutBuf::buf that hands out the view without counting it
MutBuf_buf_uncounted(sl, b, offset, len) ==
    IF ~(offset + len <= Len(sl[b].data))
    THEN [res |-> "panic", slabs |-> sl, view |-> [slab |-> b, ptr |-> 0, len |-> 0]]
    ELSE [res |-> "ok", slabs |-> sl,
          view |-> [slab |-> b, ptr |-> offset, len |-> len]]

\* MutBuf::buf(offset, len): the view and the slabs after RawBuf::clone
MutBuf_buf(sl, b, offset, len) ==
    IF ~(offset + len <= Len(sl[b].data))
    THEN [res |-> "panic", slabs |-> sl, view |-> [slab |-> b, ptr |-> 0, len |-> 0]]
    ELSE [res |-> "ok", slabs |-> [sl EXCEPT ![b] = RawBuf_clone(@)],
          view |-> [slab |-> b, ptr |-> offset, len |-> len]]

\* <Buf as Clone>::clone: the same window, one more handle
Buf_clone(sl, v) == [slabs |-> [sl EXCEPT ![v.slab] = RawBuf_clone(@)], view |-> v]

\* drop of a Buf: its RawBuf is dropped
Buf_drop(sl, v) == [sl EXCEPT ![v.slab] = RawBuf_drop(@)]

\* <Buf as Deref>::deref: the bytes a view shows
Buf_deref(sl, v) == SubSeq(sl[v.slab].data, v.ptr + 1, v.ptr + v.len)

(***************************************************************************)
(* The inbound transport.  io = [wire, chunks, last, closed]: each read    *)
(* takes the next chunk size of the script; when the script is used up the *)
(* read fails with `last`; a drained transport reports end of input when   *)
(* closed and WouldBlock otherwise.                                        *)
(***************************************************************************)
\* io::Read::read into a buffer of `space` bytes
transport_read(io, space) ==
    IF io.chunks = <<>>
    THEN [kind |-> io.last, n |-> 0, bytes |-> <<>>, io |-> io]
    ELSE IF io.wire = <<>>
    THEN [kind |-> IF io.closed THEN "ok" ELSE "WouldBlock", n |-> 0,
          bytes |-> <<>>, io |-> [io EXCEPT !.chunks = Tail(@)]]
    ELSE LET n == Min(Head(io.chunks), Min(Len(io.wire), space))
         IN  [kind |-> "ok", n |-> n, bytes |-> Take(io.wire, n),
              io |-> [io EXCEPT !.wire = Drop(@, n), !.chunks = Tail(@)]]

\* what fill does with a transport error: try! returns it to the caller
FillOnError(kind) == kind

\* the while loop of MutBuf::fill; fill_step is its body after the read r
RECURSIVE fill_loop(_, _, _)
RECURSIVE fill_step(_, _, _)
\* a loop body that takes a read of zero bytes for a reader that is not ready
fill_step_patient(slab, r, target_offset) ==
    IF r.kind # "ok"
    THEN [res |-> FillOnError(r.kind), slab |-> slab, io |-> r.io]
    ELSE IF r.n = 0
    THEN [res |-> "WouldBlock", slab |-> slab, io |-> r.io]
    ELSE fill_loop([slab EXCEPT !.data = @ \o r.bytes], r.io, target_offset)

fill_step(slab, r, target_offset) ==
    IF r.kind # "ok"
    THEN [res |-> FillOnError(r.kind), slab |-> slab, io |-> r.io]
    ELSE IF r.n = 0
    THEN [res |-> "UnexpectedEOF", slab |-> slab, io |-> r.io]
    ELSE fill_loop([slab EXCEPT !.data = @ \o r.bytes], r.io, target_offset)

fill_loop(slab, io, target_offset) ==
    IF ~(Len(slab.data) < target_offset)
    THEN [res |-> "ok", slab |-> slab, io |-> io]
    ELSE fill_step(slab, transport_read(io, slab.cap - Len(slab.data)), target_offset)

\* MutBuf::fill(read, amount)
fill(slab, io, amount) ==
    IF ~(slab.cap - Len(slab.data) >= amount)
    THEN [res |-> "panic", slab |-> slab, io |-> io]
    ELSE fill_loop(slab, io, Len(slab.data) + amount)

\* a replacement test that also replaces a slab the missing bytes just fit in
NeedsReplace_full(remaining_amount, slab) ==
    remaining_amount >= slab.cap - Len(slab.data)

\* the replacement test of fill_or_replace
NeedsReplace(remaining_amount, slab) ==
    remaining_amount > slab.cap - Len(slab.data)

\* a replacement that asks for amount bytes without the 8 of the refcount
replace_slab_tight(sl, b, from, amount) ==
    Append([sl EXCEPT ![b] = RawBuf_drop(@)],
           MutBuf_write(MutBuf_with_capacity(Max(BUF_SIZE, amount)),
                        Drop(sl[b].data, from)).slab)

\* the replacement block of fill_or_replace: a new slab holding the unread
\* tail; old_buf is dropped at the end of the block
replace_slab(sl, b, from, amount) ==
    Append([sl EXCEPT ![b] = RawBuf_drop(@)],
           MutBuf_write(MutBuf_with_capacity(Max(BUF_SIZE, amount + 8)),
                        Drop(sl[b].data, from)).slab)

\* the result of fill_or_replace, f the outcome of its call of fill
fill_result(sl, b, from, f) ==
    [res |-> f.res, slabs |-> [sl EXCEPT ![b] = f.slab], buf |-> b, io |-> f.io,
     from |-> from]

\* `self.fill(read, remaining_amount)` on slab b of sl
fill_active(sl, b, from, io, remaining_amount) ==
    fill_result(sl, b, from, fill(sl[b], io, remaining_amount))

\* MutBuf::fill_or_replace(read, from, amount) on the stream's active slab b
fill_or_replace(sl, b, io, from, amount) ==
    LET buffered_amount == Len(sl[b].data) - from
        remaining_amount == amount - buffered_amount
    IN  IF ~(from <= Len(sl[b].data))
        THEN [res |-> "panic", slabs |-> sl, buf |-> b, io |-> io, from |-> from]
        ELSE IF buffered_amount >= amount
        THEN [res |-> "ok", slabs |-> sl, buf |-> b, io |-> io, from |-> from]
        ELSE IF NeedsReplace(remaining_amount, sl[b])
        THEN fill_active(replace_slab(sl, b, from, amount), Len(sl) + 1, 0, io,
                         remaining_amount)
        ELSE fill_active(sl, b, from, io, remaining_amount)

(***************************************************************************)
(* MessageStream, read path.  st = [slabs, buf, buf_offset,                *)
(* remaining_segments, segments, limit].  A result res is "ok" / "msg", an *)
(* io error kind ("WouldBlock", "Interrupted", "UnexpectedEOF"), a decode  *)
(* error ("zero_segments", "too_many_segments", "too_large") or "panic".   *)
(***************************************************************************)
DecodeErrors == {"zero_segments", "too_many_segments", "too_large"}

\* the fill amount read_segment_table asks for after Incomplete(needed)
FillAmount(needed) == Max(8, needed)

\* the stream after fill_or_replace returned f
after_fill(st, f) ==
    [st EXCEPT !.slabs = f.slabs, !.buf = f.buf, !.buf_offset = f.from]

\* the loop of read_segment_table; on_parse is the match on the parse result
\* p, on_fill what follows the fill_or_replace of the Incomplete arm
RECURSIVE read_segment_table_loop(_, _)
RECURSIVE on_parse(_, _, _)
RECURSIVE on_fill(_, _)
on_fill(st, f) ==
    IF f.res = "ok" THEN read_segment_table_loop(after_fill(st, f), f.io)
    ELSE [res |-> f.res, st |-> after_fill(st, f), io |-> f.io]

on_parse(st, io, p) ==
    IF p.tag = "Done"
    THEN [res |-> "ok", st |-> [st EXCEPT !.remaining_segments = p.lengths],
          io |-> io]
    ELSE IF p.tag = "Error"
    THEN [res |-> IF p.code = ToU32(0) THEN "zero_segments"
                  ELSE "too_many_segments",
          st |-> [st EXCEPT !.remaining_segments = p.lengths], io |-> io]
    ELSE on_fill([st EXCEPT !.remaining_segments = p.lengths],
                 fill_or_replace(st.slabs, st.buf, io, st.buf_offset,
                                 FillAmount(p.needed)))

read_segment_table_loop(st, io) ==
    IF st.remaining_segments # <<>> \/ st.buf_offset > Len(st.slabs[st.buf].data)
    THEN [res |-> "panic", st |-> st, io |-> io]  \* assert!, slice out of range
    ELSE on_parse(st, io,
                  parse_segment_table(Drop(st.slabs[st.buf].data, st.buf_offset),
                                      st.remaining_segments))

\* the length of the segment table holding n lengths, as read_segment_table
\* advances over it
TableLen(n) == (1 + n \div 2) * 8

RECURSIVE Sum(_)
Sum(s) == IF s = <<>> THEN 0 ELSE Head(s) + Sum(Tail(s))

\* a traversal limit test that refuses a message of exactly the limit
WithinLimit_strict(total_len, limit_in_words) == total_len < limit_in_words * 8

\* the traversal limit test (the u64 sum cannot overflow below 2^31)
WithinLimit(total_len, limit_in_words) == total_len <= limit_in_words * 8

\* read_segment_table after its loop ended as l
after_table_loop(l) ==
    IF l.res # "ok" THEN l
    ELSE IF ~WithinLimit(Sum(l.st.remaining_segments), l.st.limit)
    THEN [res |-> "too_large",
          st |-> [l.st EXCEPT !.buf_offset = @ + TableLen(Len(l.st.remaining_segments))],
          io |-> l.io]
    ELSE [res |-> "ok",
          st |-> [l.st EXCEPT
                    !.buf_offset = @ + TableLen(Len(l.st.remaining_segments)),
                    !.remaining_segments = Reverse(@)],
          io |-> l.io]

\* MessageStream::read_segment_table
read_segment_table(st, io) == after_table_loop(read_segment_table_loop(st, io))

\* a read_segment that moves buf_offset one word past the view it took
after_view_far(st, io, len, v) ==
    IF v.res # "ok"
    THEN [res |-> v.res, st |-> st, io |-> io, view |-> v.view]
    ELSE [res |-> "ok",
          st |-> [st EXCEPT !.slabs = v.slabs,
                            !.buf_offset = @ + len + BYTES_PER_WORD],
          io |-> io, view |-> v.view]

\* read_segment after MutBuf::buf returned v
after_view(st, io, len, v) ==
    IF v.res # "ok"
    THEN [res |-> v.res, st |-> st, io |-> io, view |-> v.view]
    ELSE [res |-> "ok",
          st |-> [st EXCEPT !.slabs = v.slabs, !.buf_offset = @ + len],
          io |-> io, view |-> v.view]

\* read_segment after fill_or_replace left the stream as st and returned res
take_view(st, io, len, res) ==
    IF res # "ok"
    THEN [res |-> res, st |-> st, io |-> io,
          view |-> [slab |-> st.buf, ptr |-> 0, len |-> 0]]
    ELSE after_view(st, io, len, MutBuf_buf(st.slabs, st.buf, st.buf_offset, len))

\* read_segment, f the outcome of its fill_or_replace
segment_filled(st, len, f) == take_view(after_fill(st, f), f.io, len, f.res)

\* MessageStream::read_segment(len)
read_segment(st, io, len) ==
    segment_filled(st, len,
                   fill_or_replace(st.slabs, st.buf, io, st.buf_offset, len))

\* the while loop of read_message, and the Reader it returns; on_segment is
\* the body after read_segment returned r
RECURSIVE read_segments_loop(_, _)
RECURSIVE on_segment(_)
\* a loop body that pops the length before it knows the segment was read
on_segment_eager(r) ==
    IF r.res # "ok"
    THEN [res |-> r.res,
          st |-> [r.st EXCEPT !.remaining_segments = Take(@, Len(@) - 1)],
          io |-> r.io, msg |-> <<>>]
    ELSE read_segments_loop(
             [r.st EXCEPT !.segments = Append(@, r.view),
                          !.remaining_segments = Take(@, Len(@) - 1)],
             r.io)

on_segment(r) ==
    IF r.res # "ok"
    THEN [res |-> r.res, st |-> r.st, io |-> r.io, msg |-> <<>>]
    ELSE read_segments_loop(
             [r.st EXCEPT !.segments = Append(@, r.view),
                          !.remaining_segments = Take(@, Len(@) - 1)],
             r.io)

read_segments_loop(st, io) ==
    IF st.remaining_segments = <<>>
    THEN [res |-> "msg", st |-> [st EXCEPT !.segments = <<>>], io |-> io,
          msg |-> st.segments]
    ELSE on_segment(read_segment(st, io,
                        st.remaining_segments[Len(st.remaining_segments)]))

\* read_message after read_segment_table returned t
after_table(t) ==
    IF t.res # "ok"
    THEN [res |-> t.res, st |-> t.st, io |-> t.io, msg |-> <<>>]
    ELSE read_segments_loop(t.st, t.io)

\* MessageStream::read_message
read_message(st, io) ==
    IF st.remaining_segments = <<>>
    THEN after_table(read_segment_table(st, io))
    ELSE read_segments_loop(st, io)

\* a match of Iterator::next that ends the iteration on Interrupted as well
Iterator_next_interrupted(res) ==
    IF res \in {"WouldBlock", "Interrupted"} THEN "None" ELSE "Some"

\* Iterator::next: the match on the result of read_message (a panic unwinds
\* through next, which then returns nothing)
Iterator_next(res) ==
    IF res = "WouldBlock" THEN "None" ELSE "Some"

(***************************************************************************)
(* Messages.  A message is a sequence of segments, a segment a sequence of *)
(* bytes whose length is a multiple of 8 (Word::words_to_bytes).           *)
(***************************************************************************)
\* the bytes of segment s of the k-th message, w words long
SegmentBytes(k, s, w) == [j \in 1..(w * BYTES_PER_WORD) |-> (100 * k + 10 * s + j) % 256]

\* the k-th message, with segments of ws[1], ws[2], ... words
MakeMessage(k, ws) == [s \in 1..Len(ws) |-> SegmentBytes(k, s, ws[s])]

\* `segment.len()` of each segment, in words
SegmentWords(m) == [s \in 1..Len(m) |-> Len(m[s]) \div BYTES_PER_WORD]

\* the segment shapes of the inbound messages: one or two segments of no word
\* or one word
Shapes == {<<0>>, <<1>>, <<0, 0>>, <<0, 1>>, <<1, 0>>, <<1, 1>>}

\* the segment shapes of the messages passed to write_message
OutboundShapes == {<<1>>, <<0, 1>>, <<1, 1>>}

\* test_utils::write_message_segments: the canonical stream framing
write_message_segments(m) ==
    LET ws == SegmentWords(m)
        segment_count == Len(ws)
        first == write_u32(segment_count - 1) \o write_u32(ws[1])
        pairs == Concat([i \in 1..((segment_count + 1) \div 2 - 1) |->
                            write_u32(ws[2 * i]) \o write_u32(ws[2 * i + 1])])
        final == IF segment_count > 1 /\ segment_count % 2 = 0
                 THEN write_u32(ws[segment_count]) \o <<0, 0, 0, 0>>
                 ELSE <<>>
    IN  first \o pairs \o final \o Concat(m)

(***************************************************************************)
(* MessageStream, write path.  wio = [out, answers, last]: each transport  *)
(* write takes the next answer of the script ([k |-> "ok", n] accepts up   *)
(* to n bytes, [k |-> "Interrupted"] fails with Interrupted); when the     *)
(* script is used up the write answers `last`: "WouldBlock", "Zero"        *)
(* (Ok(0)) or "Other" (another io error).  Where a call's result is        *)
(* matched on, the result is bound once, as the only element of a set.     *)
(***************************************************************************)
\* io::Write::write
transport_write(wio, b) ==
    IF wio.answers = <<>>
    THEN [kind |-> IF wio.last = "Zero" THEN "ok" ELSE wio.last, n |-> 0, wio |-> wio]
    ELSE IF Head(wio.answers).k = "Interrupted"
    THEN [kind |-> "Interrupted", n |-> 0, wio |-> [wio EXCEPT !.answers = Tail(@)]]
    ELSE [kind |-> "ok", n |-> Min(Head(wio.answers).n, Len(b)),
          wio |-> [wio EXCEPT !.answers = Tail(@),
                              !.out = @ \o Take(b, Min(Head(wio.answers).n, Len(b)))]]

\* a write_segment that forgets to advance the offset
AdvanceOffset_stuck(offset, n) == offset

\* `*offset += n` in write_segment
AdvanceOffset(offset, n) == offset + n

\* write_segment(write, buf, offset); on_write is the match on the result r
\* of one transport write
RECURSIVE write_segment(_, _, _)
RECURSIVE on_write(_, _, _)
\* a match that returns Interrupted to the caller like any other error
on_write_surfacing(b, offset, r) ==
    IF r.kind = "ok"
    THEN IF r.n = 0
         THEN [res |-> "WriteZero", wio |-> r.wio, offset |-> offset]
         ELSE write_segment(r.wio, Drop(b, r.n), AdvanceOffset(offset, r.n))
    ELSE [res |-> r.kind, wio |-> r.wio, offset |-> offset]

on_write(b, offset, r) ==
    IF r.kind = "ok"
    THEN IF r.n = 0
         THEN [res |-> "WriteZero", wio |-> r.wio, offset |-> offset]
         ELSE write_segment(r.wio, Drop(b, r.n), AdvanceOffset(offset, r.n))
    ELSE IF r.kind = "Interrupted"
    THEN write_segment(r.wio, b, offset)
    ELSE [res |-> r.kind, wio |-> r.wio, offset |-> offset]

write_segment(wio, b, offset) ==
    IF b = <<>> THEN [res |-> "ok", wio |-> wio, offset |-> offset]
    ELSE CHOOSE w \in {on_write(b, offset, r) : r \in {transport_write(wio, b)}} : TRUE

\* the for loop of write_message over segments[(segment_index - 1)..];
\* on_segment_written is its body after write_segment returned w
RECURSIVE write_segments_loop(_, _, _)
RECURSIVE on_segment_written(_, _, _)
\* a loop body that moves to the next segment without resetting the offset
on_segment_written_keep(segs, cs, w) ==
    IF w.res # "ok"
    THEN [res |-> w.res, wio |-> w.wio, cs |-> <<cs[1], w.offset>>]
    ELSE write_segments_loop(w.wio, segs, <<cs[1] + 1, w.offset>>)

on_segment_written(segs, cs, w) ==
    IF w.res # "ok"
    THEN [res |-> w.res, wio |-> w.wio, cs |-> <<cs[1], w.offset>>]
    ELSE write_segments_loop(w.wio, segs, <<cs[1] + 1, 0>>)

write_segments_loop(wio, segs, cs) ==
    IF cs[1] - 1 > Len(segs) \/ cs[1] < 1
    THEN [res |-> "panic", wio |-> wio, cs |-> cs]
    ELSE IF cs[1] > Len(segs)
    THEN [res |-> "ok", wio |-> wio, cs |-> cs]
    ELSE CHOOSE m \in
             {on_segment_written(segs, cs, w) :
                 w \in {write_segment(wio, Drop(segs[cs[1]], cs[2]), cs[2])}} : TRUE

\* write_message after the segment table was written with outcome h
on_table_written(segs, h) ==
    IF h.res # "ok"
    THEN [res |-> h.res, wio |-> h.wio, cs |-> <<0, h.offset>>]
    ELSE write_segments_loop(h.wio, segs, <<1, 0>>)

\* write_message(write, segment_table, segments, current_segment)
write_message(wio, segment_table, segs, cs) ==
    IF cs[1] = 0
    THEN CHOOSE m \in
             {on_table_written(segs, h) :
                 h \in {write_segment(wio, Drop(segment_table, cs[2]), cs[2])}} : TRUE
    ELSE write_segments_loop(wio, segs, cs)

\* a write that takes the next message without looking at current_write
NeedsPop_always(cw) == TRUE

\* whether MessageStream::write takes its next message from the queue
NeedsPop(cw) == cw = <<>>

\* a write that reports WouldBlock to its caller
WouldBlockResult_distinct == "would_block"

\* what MessageStream::write returns when the transport answers WouldBlock
WouldBlockResult == "ok"

\* the head of the loop of MessageStream::write: the current message, or the
\* next of the queue with its segment table and a reset cursor
next_message(w) ==
    IF ~NeedsPop(w.current_write) THEN w
    ELSE IF w.write_queue = <<>> THEN [w EXCEPT !.current_write = <<>>]
    ELSE [w EXCEPT
            !.current_write = <<Head(w.write_queue)>>,
            !.write_queue = Tail(w.write_queue),
            !.current_segment_table =
                serialize_segment_table(SegmentWords(Head(w.write_queue))),
            !.current_segment = <<0, 0>>]

\* MessageStream::write.  w = [write_queue, current_write,
\* current_segment_table, current_segment].  on_message is the match on the
\* result m of write_message, w0 and wio0 the stream and the transport at the
\* head of the iteration: an iteration that returns to the head of the loop
\* with neither changed repeats forever, and the call does not return ("hang").
RECURSIVE MessageStream_write(_, _)
RECURSIVE write_current(_, _, _)
RECURSIVE on_message(_, _, _, _)
on_message(w0, wio0, w1, m) ==
    IF m.res = "WouldBlock"
    THEN [res |-> WouldBlockResult, w |-> [w1 EXCEPT !.current_segment = m.cs],
          wio |-> m.wio, blocked |-> TRUE]
    ELSE IF m.res = "ok"
    THEN IF [w1 EXCEPT !.current_segment = m.cs] = w0 /\ m.wio = wio0
         THEN [res |-> "hang", w |-> w0, wio |-> wio0, blocked |-> FALSE]
         ELSE MessageStream_write([w1 EXCEPT !.current_segment = m.cs], m.wio)
    ELSE [res |-> m.res, w |-> [w1 EXCEPT !.current_segment = m.cs],
          wio |-> m.wio, blocked |-> FALSE]

write_current(w0, wio, w1) ==
    IF w1.current_write = <<>>
    THEN [res |-> "ok", w |-> w1, wio |-> wio, blocked |-> FALSE]
    ELSE CHOOSE r \in
             {on_message(w0, wio, w1, m) :
                 m \in {write_message(wio, w1.current_segment_table,
                                      w1.current_write[1], w1.current_segment)}} : TRUE

MessageStream_write(w, wio) ==
    CHOOSE r \in {write_current(w, wio, w1) : w1 \in {next_message(w)}} : TRUE

\* a write_message that starts writing whether or not a message is in progress
MessageStream_write_message_always(w, wio, message) ==
    MessageStream_write([w EXCEPT !.write_queue = Append(@, message)], wio)

\* MessageStream::write_message(message)
MessageStream_write_message(w, wio, message) ==
    IF w.current_write = <<>>
    THEN MessageStream_write([w EXCEPT !.write_queue = Append(@, message)], wio)
    ELSE [res |-> "ok", w |-> [w EXCEPT !.write_queue = Append(@, message)],
          wio |-> wio, blocked |-> FALSE]

(***************************************************************************)
(* Initial states.                                                         *)
(***************************************************************************)
NoParse == [tag |-> "none", needed |-> 0, code |-> ToU32(0), rest |-> <<>>,
            lengths |-> <<>>]

\* no call has been made on the slab directly
NoCall == [op |-> "none", amount |-> 0, res |-> "none"]

CodecIdle ==
    /\ c_ws = <<>> /\ c_bytes = <<>> /\ c_res = NoParse /\ c_pc = "idle"

\* MessageStream::new, read side, on a transport with nothing to deliver
ReadIdle ==
    /\ rd_wire = <<>> /\ rd_closed = FALSE
    /\ slabs = <<MutBuf_new>> /\ buf = 1 /\ buf_offset = 0
    /\ remaining_segments = <<>> /\ segments = <<>>
    /\ traversal_limit_in_words = 1
    /\ rd_delivered = <<>> /\ rd_result = "none"
    /\ rd_src = [msgs |-> <<>>, trailer |-> <<>>]
    /\ rd_decode_failed = FALSE
    /\ sb_call = NoCall /\ rd_next = "none"

\* MessageStream::new, write side
WriteIdle ==
    /\ write_queue = <<>> /\ current_write = <<>>
    /\ current_segment_table = <<>> /\ current_segment = <<0, 0>>
    /\ wr_out = <<>> /\ wr_result = "none" /\ wr_enqueued = <<>>
    /\ wr_call = "none" /\ wr_blocked = FALSE /\ wr_resumed = FALSE

(***************************************************************************)
(* The codec harness: serialize a list of word lengths, parse the result.  *)
(***************************************************************************)
WordLens == {0, 1, 255, 256, 65536, 2 ^ 28 - 1}

CodecInputs ==
    (SeqsUpTo(WordLens, MaxTableSegs) \ {<<>>})
        \cup {[k \in 1..(SEGMENT_COUNT_LIMIT - 1) |-> 1],
              [k \in 1..(SEGMENT_COUNT_LIMIT - 2) |-> 2]}

CodecInit ==
    /\ c_ws \in CodecInputs
    /\ c_bytes = <<>> /\ c_res = NoParse /\ c_pc = "init"
    /\ ReadIdle /\ WriteIdle

Serialize ==
    /\ c_pc = "init"
    /\ c_bytes' = serialize_segment_table(c_ws)
    /\ c_pc' = "serialized"
    /\ UNCHANGED <<c_ws, c_res, read_vars, write_vars>>

Parse ==
    /\ c_pc = "serialized"
    /\ c_res' = parse_segment_table(c_bytes, <<>>)
    /\ c_pc' = "parsed"
    /\ UNCHANGED <<c_ws, c_bytes, read_vars, write_vars>>

CodecNext == Serialize \/ Parse

CodecSpec == CodecInit /\ [][CodecNext]_vars

(***************************************************************************)
(* The stream's read side: a transport carrying framed messages, possibly  *)
(* followed by a header with an invalid segment count.                     *)
(***************************************************************************)
SrcLists ==
    {[k \in 1..Len(shapes) |-> MakeMessage(k, shapes[k])] :
        shapes \in SeqsUpTo(Shapes, MaxMsgs)}

\* on-wire count 0xFFFFFFFF (0 segments) and 511 (512 segments)
Trailers == {<<>>, <<255, 255, 255, 255>>, <<255, 1, 0, 0>>}

ReadChunks == {1, 8, BUF_SIZE}

ReadInit ==
    /\ \E msgs \in SrcLists, trailer \in Trailers :
          /\ rd_src = [msgs |-> msgs, trailer |-> trailer]
          /\ rd_wire = Concat([k \in 1..Len(msgs) |-> write_message_segments(msgs[k])])
                          \o trailer
    /\ rd_closed \in BOOLEAN
    /\ traversal_limit_in_words = MaxWords
    /\ slabs = <<MutBuf_new>> /\ buf = 1 /\ buf_offset = 0
    /\ remaining_segments = <<>> /\ segments = <<>>
    /\ rd_delivered = <<>> /\ rd_result = "none" /\ rd_decode_failed = FALSE
    /\ sb_call = NoCall /\ rd_next = "none"
    /\ CodecIdle /\ WriteIdle

\* the stream and the history after a read_message call that ended as r
ReadEffect(r) ==
    /\ rd_wire' = r.io.wire
    /\ slabs' = r.st.slabs
    /\ buf' = r.st.buf
    /\ buf_offset' = r.st.buf_offset
    /\ remaining_segments' = r.st.remaining_segments
    /\ segments' = r.st.segments
    /\ rd_result' = r.res
    /\ rd_next' = IF r.res = "panic" THEN "unwound" ELSE Iterator_next(r.res)
    /\ rd_delivered' = IF r.res = "msg" THEN Append(rd_delivered, r.msg)
                       ELSE rd_delivered
    /\ rd_decode_failed' = (rd_decode_failed \/ r.res \in DecodeErrors)

ReadState ==
    [slabs |-> slabs, buf |-> buf, buf_offset |-> buf_offset,
     remaining_segments |-> remaining_segments, segments |-> segments,
     limit |-> traversal_limit_in_words]

\* one call of read_message (through Iterator::next)
PollRead ==
    /\ rd_result # "panic"
    /\ \E chunks \in SeqsUpTo(ReadChunks, MaxReads),
          last \in {"WouldBlock", "Interrupted"} :
          ReadEffect(read_message(ReadState,
                         [wire |-> rd_wire, chunks |-> chunks, last |-> last,
                          closed |-> rd_closed]))
    /\ UNCHANGED <<rd_closed, traversal_limit_in_words, rd_src, sb_call>>
    /\ UNCHANGED <<codec_vars, write_vars>>

ReadNext == PollRead

ReadSpec == ReadInit /\ [][ReadNext]_vars

(***************************************************************************)
(* The parser on raw inputs: a count field cut short, or followed by a     *)
(* tail of table entries, or by a table for 512 segments.  The transport   *)
(* of the stream carries the first bytes of the same input.                *)
(***************************************************************************)
\* on-wire counts 0, 1, 2, 510, 511, 512, 0xFFFFFFFF, 0xFFFFFFFE, 65536, 65535
CountFields ==
    {<<0, 0, 0, 0>>, <<1, 0, 0, 0>>, <<2, 0, 0, 0>>, <<254, 1, 0, 0>>,
     <<255, 1, 0, 0>>, <<0, 2, 0, 0>>, <<255, 255, 255, 255>>,
     <<254, 255, 255, 255>>, <<0, 0, 1, 0>>, <<255, 255, 0, 0>>}

\* table entries of 0 words and of 1 word
TailPatterns == {<<0, 0, 0, 0>>, <<1, 0, 0, 0>>}

RawTail(pat, n) == [j \in 1..n |-> pat[((j - 1) % 4) + 1]]

\* the entries and the pad of a table for 512 segments
FullTableLen == 4 * SEGMENT_COUNT_LIMIT + 4

RawInputs ==
    {Take(f, n) : f \in CountFields, n \in 0..3}
        \cup {f \o RawTail(pat, n) :
                 f \in CountFields, pat \in TailPatterns, n \in 0..MaxRawTail}
        \cup {f \o RawTail(<<1, 0, 0, 0>>, FullTableLen) :
                 f \in {<<254, 1, 0, 0>>, <<255, 1, 0, 0>>, <<0, 2, 0, 0>>}}

RawInit ==
    /\ c_bytes \in RawInputs
    /\ c_ws = <<>> /\ c_res = NoParse /\ c_pc = "raw"
    /\ rd_wire = Take(c_bytes, Min(MaxHeadLen, Len(c_bytes)))
    /\ rd_src = [msgs |-> <<>>,
                 trailer |-> Take(c_bytes, Min(MaxHeadLen, Len(c_bytes)))]
    /\ rd_closed = FALSE
    /\ traversal_limit_in_words = MaxWords
    /\ slabs = <<MutBuf_new>> /\ buf = 1 /\ buf_offset = 0
    /\ remaining_segments = <<>> /\ segments = <<>>
    /\ rd_delivered = <<>> /\ rd_result = "none" /\ rd_decode_failed = FALSE
    /\ sb_call = NoCall /\ rd_next = "none"
    /\ WriteIdle

\* parse_segment_table on the input, with an empty vector
ParseRaw ==
    /\ c_pc = "raw"
    /\ c_res' = parse_segment_table(c_bytes, <<>>)
    /\ c_pc' = "parsed"
    /\ UNCHANGED <<c_ws, c_bytes, read_vars, write_vars>>

ParseNext == ParseRaw \/ PollRead

ParseSpec == RawInit /\ [][ParseNext]_vars

(***************************************************************************)
(* The slab on its own: a MutBuf of a small capacity, its caller's offset  *)
(* `from` (buf_offset), a reader (rd_wire) and the views alive (segments). *)
(* buf = 0 once the MutBuf has been dropped.  A panic ends the run.        *)
(***************************************************************************)
\* MutBuf::with_capacity argument: 14 as in the tests (a slab of 6 bytes); the
\* slab that replaces it has the capacity fill_or_replace gives it
SlabCaps == {14}

\* the byte strings passed to MutBuf::write
WriteInputs == {[i \in 1..n |-> 200 + i] : n \in {3}}

\* the amounts asked of fill_or_replace
FillAmounts == {2, 8}

\* the sizes of the reader's answers during one call: none, a byte, all it
\* has, or a byte and then all it has
SlabChunks == {<<>>, <<1>>, <<BUF_SIZE>>, <<1, BUF_SIZE>>}

\* the lengths asked of MutBuf::buf
ViewLens == {2}

RemoveAt(s, i) == SubSeq(s, 1, i - 1) \o SubSeq(s, i + 1, Len(s))

slab_frame == <<remaining_segments, traversal_limit_in_words, rd_delivered,
                rd_result, rd_src, rd_decode_failed, rd_next, rd_closed,
                codec_vars, write_vars>>

SlabInit ==
    /\ \E cap \in SlabCaps : slabs = <<MutBuf_with_capacity(cap)>>
    /\ buf = 1 /\ buf_offset = 0 /\ segments = <<>>
    /\ rd_wire = [i \in 1..MaxSlabWire |-> i]
    /\ rd_closed = TRUE
    /\ remaining_segments = <<>>
    /\ traversal_limit_in_words = MaxWords
    /\ rd_delivered = <<>> /\ rd_result = "none" /\ rd_decode_failed = FALSE
    /\ rd_src = [msgs |-> <<>>, trailer |-> <<>>]
    /\ sb_call = NoCall /\ rd_next = "none"
    /\ CodecIdle /\ WriteIdle

SlabRunning == sb_call.res # "panic"

\* the reader handed to fill_or_replace
SlabReaders ==
    {[wire |-> rd_wire, chunks |-> chunks, last |-> last, closed |-> rd_closed] :
        chunks \in SlabChunks, last \in {"WouldBlock"}}

\* buf.write(bytes)
SlabWrite ==
    /\ SlabRunning /\ buf # 0
    /\ Len(slabs[buf].data) < MaxSlabData
    /\ \E bytes \in WriteInputs :
          \E w \in {MutBuf_write(slabs[buf], bytes)} :
              /\ slabs' = [slabs EXCEPT ![buf] = w.slab]
              /\ sb_call' = [op |-> "other", amount |-> 0, res |-> "ok"]
    /\ UNCHANGED <<buf, buf_offset, segments, rd_wire, slab_frame>>

\* stream.read_segment(len): fill_or_replace(stream, buf_offset, len), then
\* the view at buf_offset and the offset moved past it; the view is kept by
\* the caller
TakeSegment ==
    /\ SlabRunning /\ buf # 0
    /\ Len(segments) < MaxViews
    /\ \E io \in SlabReaders, len \in ViewLens :
          \E r \in {read_segment(ReadState, io, len)} :
              /\ slabs' = r.st.slabs
              /\ buf' = r.st.buf
              /\ buf_offset' = r.st.buf_offset
              /\ rd_wire' = r.io.wire
              /\ segments' = IF r.res = "ok" THEN Append(segments, r.view)
                             ELSE segments
              /\ sb_call' = [op |-> "read_segment", amount |-> len, res |-> r.res]
    /\ UNCHANGED slab_frame

\* view.clone(), the clone kept next to the original
ViewClone ==
    /\ SlabRunning
    /\ Len(segments) < MaxViews
    /\ \E i \in DOMAIN segments :
          \E c \in {Buf_clone(slabs, segments[i])} :
              /\ slabs' = c.slabs
              /\ segments' = SubSeq(segments, 1, i) \o <<c.view>>
                                 \o SubSeq(segments, i + 1, Len(segments))
              /\ sb_call' = [op |-> "other", amount |-> 0, res |-> "ok"]
    /\ UNCHANGED <<buf, buf_offset, rd_wire, slab_frame>>

\* drop(view)
ViewDrop ==
    /\ SlabRunning
    /\ \E i \in DOMAIN segments :
          /\ slabs' = Buf_drop(slabs, segments[i])
          /\ segments' = RemoveAt(segments, i)
          /\ sb_call' = [op |-> "other", amount |-> 0, res |-> "ok"]
    /\ UNCHANGED <<buf, buf_offset, rd_wire, slab_frame>>

\* drop of the MutBuf (the stream is dropped)
StreamDrop ==
    /\ SlabRunning /\ buf # 0
    /\ slabs' = [slabs EXCEPT ![buf] = RawBuf_drop(@)]
    /\ buf' = 0
    /\ sb_call' = [op |-> "other", amount |-> 0, res |-> "ok"]
    /\ UNCHANGED <<buf_offset, segments, rd_wire, slab_frame>>

\* buf.fill_or_replace(read, &mut from, amount)
SlabFillOrReplace ==
    /\ SlabRunning /\ buf # 0
    /\ \E io \in SlabReaders, amount \in FillAmounts :
          \E r \in {fill_or_replace(slabs, buf, io, buf_offset, amount)} :
              /\ slabs' = r.slabs
              /\ buf' = r.buf
              /\ buf_offset' = r.from
              /\ rd_wire' = r.io.wire
              /\ sb_call' = [op |-> "fill_or_replace", amount |-> amount, res |-> r.res]
    /\ UNCHANGED <<segments, slab_frame>>

SlabNext ==
    \/ SlabWrite \/ TakeSegment \/ ViewClone \/ ViewDrop
    \/ StreamDrop \/ SlabFillOrReplace

SlabSpec == SlabInit /\ [][SlabNext]_vars

(***************************************************************************)
(* The stream on a cursor holding the canonical framing of one message:    *)
(* every read returns all the bytes that are left and fit, and the end of  *)
(* the cursor is the end of input.                                         *)
(***************************************************************************)
\* the segment shapes of the message, two of them larger than a slab
CursorShapes ==
    (SeqsUpTo(0..2, MaxTableSegs) \ {<<>>}) \cup {<<600>>, <<1, 600>>}

\* the traversal limits the stream is built with
CursorLimits == {MaxWords, DEFAULT_TRAVERSAL_LIMIT}

CursorInit ==
    /\ \E shape \in CursorShapes :
          /\ rd_src = [msgs |-> <<MakeMessage(1, shape)>>, trailer |-> <<>>]
          /\ rd_wire = write_message_segments(MakeMessage(1, shape))
    /\ rd_closed = TRUE
    /\ traversal_limit_in_words \in CursorLimits
    /\ slabs = <<MutBuf_new>> /\ buf = 1 /\ buf_offset = 0
    /\ remaining_segments = <<>> /\ segments = <<>>
    /\ rd_delivered = <<>> /\ rd_result = "none" /\ rd_decode_failed = FALSE
    /\ sb_call = NoCall /\ rd_next = "none"
    /\ CodecIdle /\ WriteIdle

\* one call of next() on the cursor
CursorRead ==
    /\ rd_result # "panic"
    /\ \E r \in {read_message(ReadState,
                    [wire |-> rd_wire,
                     chunks |-> [i \in 1..MaxCursorReads |-> BUF_SIZE],
                     last |-> "WouldBlock", closed |-> rd_closed])} :
          ReadEffect(r)
    /\ UNCHANGED <<rd_closed, traversal_limit_in_words, rd_src, sb_call>>
    /\ UNCHANGED <<codec_vars, write_vars>>

CursorNext == CursorRead

CursorSpec == CursorInit /\ [][CursorNext]_vars

(***************************************************************************)
(* The stream reading one message of several segments from a transport     *)
(* that runs dry between or inside the segments, and that may end, on the  *)
(* message boundary or half a word before it.                              *)
(***************************************************************************)
\* the segment shapes of the message, one with a segment larger than a slab
RetryShapes == {<<1, 1>>, <<2, 1>>, <<1, 0, 1>>, <<1, 1, 1>>, <<1, 600>>}

\* the sizes of the reads: one byte, a whole header, or a header and a one-word
\* segment; a transport holding more than a few words delivers a slab at a time
RetryChunks(wire) == IF Len(wire) > 64 THEN {BUF_SIZE} ELSE {1, 16, 24}

\* the bytes the transport loses at its end: none, or half a word
RetryCuts == {0, 4}

RetryInit ==
    /\ \E shape \in RetryShapes, cut \in RetryCuts :
          /\ rd_src = [msgs |-> <<MakeMessage(1, shape)>>, trailer |-> <<>>]
          /\ rd_wire = Take(write_message_segments(MakeMessage(1, shape)),
                            Len(write_message_segments(MakeMessage(1, shape))) - cut)
    /\ rd_closed \in BOOLEAN
    /\ traversal_limit_in_words \in CursorLimits
    /\ slabs = <<MutBuf_new>> /\ buf = 1 /\ buf_offset = 0
    /\ remaining_segments = <<>> /\ segments = <<>>
    /\ rd_delivered = <<>> /\ rd_result = "none" /\ rd_decode_failed = FALSE
    /\ sb_call = NoCall /\ rd_next = "none"
    /\ CodecIdle /\ WriteIdle

\* one call of read_message on that transport
RetryRead ==
    /\ rd_result # "panic"
    /\ \E chunks \in SeqsUpTo(RetryChunks(rd_wire), MaxRetryReads),
          last \in {"WouldBlock", "Interrupted"} :
          \E r \in {read_message(ReadState,
                        [wire |-> rd_wire, chunks |-> chunks, last |-> last,
                         closed |-> rd_closed])} :
             ReadEffect(r)
    /\ UNCHANGED <<rd_closed, traversal_limit_in_words, rd_src, sb_call>>
    /\ UNCHANGED <<codec_vars, write_vars>>

RetryNext == RetryRead

RetrySpec == RetryInit /\ [][RetryNext]_vars

(***************************************************************************)
(* Appends to one slab: MutBuf::with_capacity(cap), then calls of write.   *)
(* c_bytes is the argument of the last call, sb_call.amount the count it   *)
(* returned.                                                               *)
(***************************************************************************)
\* the capacities asked of with_capacity: less than the refcount, the
\* refcount alone, and the 14 and 16 of the tests
AppendCaps == {0, REFCOUNT_LEN, 14, 16}

\* the byte strings passed to write: empty, short, and the 11 bytes of the test
AppendInputs == {[i \in 1..n |-> 96 + i] : n \in {0, 1, 3, MaxAppend}}

AppendInit ==
    /\ \E cap \in AppendCaps : slabs = <<MutBuf_with_capacity(cap)>>
    /\ buf = 1 /\ buf_offset = 0 /\ segments = <<>>
    /\ rd_wire = <<>> /\ rd_closed = FALSE
    /\ remaining_segments = <<>>
    /\ traversal_limit_in_words = MaxWords
    /\ rd_delivered = <<>> /\ rd_result = "none" /\ rd_decode_failed = FALSE
    /\ rd_src = [msgs |-> <<>>, trailer |-> <<>>]
    /\ sb_call = NoCall /\ rd_next = "none"
    /\ CodecIdle /\ WriteIdle

\* buf.write(bytes)
Append_write ==
    /\ \E bytes \in AppendInputs :
          \E w \in {MutBuf_write(slabs[buf], bytes)} :
              /\ slabs' = [slabs EXCEPT ![buf] = w.slab]
              /\ c_bytes' = bytes
              /\ sb_call' = [op |-> "write", amount |-> w.count, res |-> "ok"]
    /\ UNCHANGED <<c_ws, c_res, c_pc, buf, buf_offset, segments, rd_wire,
                   rd_closed, remaining_segments, traversal_limit_in_words,
                   rd_delivered, rd_result, rd_src, rd_decode_failed, rd_next,
                   write_vars>>

AppendNext == Append_write

AppendSpec == AppendInit /\ [][AppendNext]_vars

(***************************************************************************)
(* The stream's write side.                                                *)
(***************************************************************************)
WriteChunks == {1, 8, BUF_SIZE}

Answers == {[k |-> "ok", n |-> c] : c \in WriteChunks}
               \cup {[k |-> "Interrupted", n |-> 0]}

WriteScripts ==
    {[answers |-> a, last |-> l] :
        a \in SeqsUpTo(Answers, MaxWrites), l \in {"WouldBlock", "Zero", "Other"}}

\* the transport at a call of write_message that finds a message in progress:
\* ready to accept whatever it is given
ReadyScripts ==
    {[answers |-> <<[k |-> "ok", n |-> BUF_SIZE]>>, last |-> "WouldBlock"]}

\* the answers of the transport after a write that failed with Interrupted
RetryScripts ==
    {[answers |-> a, last |-> l] :
        a \in SeqsUpTo(Answers, 1), l \in {"WouldBlock", "Zero", "Other"}}

WriteInit == WriteIdle /\ CodecIdle /\ ReadIdle

WriteState ==
    [write_queue |-> write_queue, current_write |-> current_write,
     current_segment_table |-> current_segment_table,
     current_segment |-> current_segment]

\* the stream and the history after a call that ended as r
WriteEffect(r, call) ==
    /\ write_queue' = r.w.write_queue
    /\ current_write' = r.w.current_write
    /\ current_segment_table' = r.w.current_segment_table
    /\ current_segment' = r.w.current_segment
    /\ wr_out' = r.wio.out
    /\ wr_result' = r.res
    /\ wr_call' = call
    /\ wr_blocked' = r.blocked
    /\ wr_resumed' = (wr_resumed \/ (wr_blocked /\ current_segment[2] > 0
                                        /\ Len(r.wio.out) > Len(wr_out)))

WriteRunning == wr_result \notin {"hang", "panic"}

\* one call of MessageStream::write under the transport script sc
PollWriteWith(sc) ==
    /\ WriteRunning
    /\ \E r \in {MessageStream_write(WriteState,
                    [out |-> wr_out, answers |-> sc.answers, last |-> sc.last])} :
          WriteEffect(r, "write")
    /\ UNCHANGED <<wr_enqueued, codec_vars, read_vars>>

PollWrite == \E sc \in WriteScripts : PollWriteWith(sc)

\* one call of MessageStream::write_message
Enqueue ==
    /\ WriteRunning
    /\ Len(wr_enqueued) < MaxEnq
    /\ \E shape \in OutboundShapes,
          sc \in (IF current_write = <<>> THEN WriteScripts ELSE ReadyScripts) :
          LET message == MakeMessage(Len(wr_enqueued) + 1, shape)
          IN  /\ \E r \in {MessageStream_write_message(WriteState,
                               [out |-> wr_out, answers |-> sc.answers,
                                last |-> sc.last], message)} :
                     WriteEffect(r, "write_message")
              /\ wr_enqueued' = Append(wr_enqueued, message)
    /\ UNCHANGED <<codec_vars, read_vars>>

WriteNext == PollWrite \/ Enqueue

WriteSpec == WriteInit /\ [][WriteNext]_vars

\* the caller keeps calling write and the transport eventually accepts a byte
PollWriteProgress ==
    PollWriteWith([answers |-> <<[k |-> "ok", n |-> 1]>>, last |-> "WouldBlock"])

FairWriteSpec == WriteSpec /\ WF_vars(PollWriteProgress)

(***************************************************************************)
(* The encoder on a writer that accepts every byte: the segment table is   *)
(* serialized, then write_message runs from the cursor (0, 0).             *)
(***************************************************************************)
\* the segment shapes of the message
EncoderShapes == SeqsUpTo(0..2, MaxTableSegs) \ {<<>>}

EncoderInit ==
    /\ c_ws \in EncoderShapes
    /\ c_bytes = <<>> /\ c_res = NoParse /\ c_pc = "segments"
    /\ ReadIdle /\ WriteIdle

\* serialize_segment_table(&mut segment_table, borrowed_segments)
EncodeTable ==
    /\ c_pc = "segments"
    /\ c_bytes' = serialize_segment_table(SegmentWords(MakeMessage(1, c_ws)))
    /\ c_pc' = "table"
    /\ UNCHANGED <<c_ws, c_res, read_vars, write_vars>>

\* write_message(&mut cursor, &segment_table[..], borrowed_segments,
\* &mut (0, 0)), every write accepting all the bytes it is given
EncodeWrite ==
    /\ c_pc = "table"
    /\ \E r \in {write_message(
                    [out |-> <<>>,
                     answers |-> [i \in 1..(Len(c_ws) + 1) |->
                                     [k |-> "ok", n |-> BUF_SIZE]],
                     last |-> "WouldBlock"],
                    c_bytes, MakeMessage(1, c_ws), <<0, 0>>)} :
          /\ wr_out' = r.wio.out
          /\ wr_result' = r.res
          /\ current_segment' = r.cs
    /\ c_pc' = "written"
    /\ UNCHANGED <<c_ws, c_bytes, c_res, read_vars, write_queue, current_write,
                   current_segment_table, wr_enqueued, wr_call, wr_blocked,
                   wr_resumed>>

EncoderNext == EncodeTable \/ EncodeWrite

EncoderSpec == EncoderInit /\ [][EncoderNext]_vars

(***************************************************************************)
(* Properties.                                                             *)
(***************************************************************************)
\* the one-shot serialization of an outbound message: header, then segments
OneShot(m) == serialize_segment_table(SegmentWords(m)) \o Concat(m)

\* the serializations of the first k messages passed to write_message
BytesUpTo(k) == Concat([i \in 1..k |-> OneShot(wr_enqueued[i])])

\* the index in wr_enqueued of the message in progress
CurrentIndex == Len(wr_enqueued) - Len(write_queue)

\* the bytes the transport has accepted of the message in progress
CurrentBytes == Drop(wr_out, Len(BytesUpTo(CurrentIndex - 1)))

\* the bytes the caller sees through the segments of the k-th message read
DeliveredBytes(k) ==
    [i \in 1..Len(rd_delivered[k]) |-> Buf_deref(slabs, rd_delivered[k][i])]

\* the transport carries only valid messages within the traversal limit
WellFormed ==
    /\ rd_src.trailer = <<>>
    /\ \A k \in 1..Len(rd_src.msgs) :
          Sum(SegmentWords(rd_src.msgs[k])) <= traversal_limit_in_words

\* every message returned so far is the source message of the same rank
DeliveredInOrder ==
    /\ Len(rd_delivered) <= Len(rd_src.msgs)
    /\ \A k \in 1..Len(rd_delivered) : DeliveredBytes(k) = rd_src.msgs[k]

\* C1: on a transport carrying valid framed messages, however its bytes are
\* split across reads and WouldBlock answers, read_message never panics and
\* never fails with a decode error, and the first message it returns has the
\* source's segments in order.
C1_PartialReadResumes ==
    WellFormed =>
        /\ rd_result \in {"none", "msg", "WouldBlock", "Interrupted", "UnexpectedEOF"}
        /\ (Len(rd_delivered) >= 1 => DeliveredBytes(1) = rd_src.msgs[1])

\* C2: the bytes accepted for the message in progress are always a prefix of
\* its one-shot serialization (nothing repeated or skipped where a write
\* resumes), and every message that is in progress is eventually handed to the
\* transport in full.
C2_PartialWriteResumes ==
    /\ [](current_write # <<>> => IsPrefix(CurrentBytes, OneShot(current_write[1])))
    /\ \A k \in 1..MaxEnq :
          (current_write # <<>> /\ CurrentIndex = k)
              ~> (Len(wr_enqueued) >= k /\ Len(wr_out) >= Len(BytesUpTo(k)))

\* C2 witness: a write resumed in the middle of a unit after WouldBlock and the
\* message has been handed over in full
C2_Witness ==
    /\ wr_resumed
    /\ current_write # <<>>
    /\ CurrentBytes = OneShot(current_write[1])

\* C3: a call of write that the transport never refuses (no WouldBlock, no
\* error) returns ok and leaves write_queue empty and current_write None.
C3_WriteDrainsAndReturns ==
    (wr_call = "write" /\ ~wr_blocked /\ wr_result \notin {"WriteZero", "Other"})
        => (wr_result = "ok" /\ write_queue = <<>> /\ current_write = <<>>)

\* C4: a message is released by the stream once its last byte has been
\* accepted: the stream never holds as current_write a message whose whole
\* serialization is on the transport.
C4_ReleasedWhenWritten ==
    current_write # <<>> => CurrentBytes # OneShot(current_write[1])

\* C5: the bytes accepted by the transport are at every moment a prefix of the
\* serializations of the enqueued messages, concatenated in enqueue order.
C5_OutboundOrder == IsPrefix(wr_out, BytesUpTo(Len(wr_enqueued)))

\* C5 witness: a call of write has put the last byte of the first message on
\* the transport while a later message was waiting in the queue
C5_Witness ==
    /\ wr_call = "write"
    /\ Len(write_queue) >= 1
    /\ wr_out = OneShot(wr_enqueued[1])

\* C6: the messages of a transport carrying several framed messages are
\* returned in transport order, each with its own segments, and once the first
\* has been returned read_message goes on to the following ones without
\* panicking or raising a decode error.
C6_InboundOrder ==
    (WellFormed /\ Len(rd_delivered) >= 1) =>
        /\ DeliveredInOrder
        /\ rd_result \in {"msg", "WouldBlock", "Interrupted", "UnexpectedEOF"}

\* C7: once read_message has raised a decode error, no later call returns a
\* message.
C7_DecodeErrorIsFinal == rd_decode_failed => rd_result # "msg"

\* C8: read_message never returns an Interrupted error to its caller.
C8_InterruptedNotSurfaced == rd_result # "Interrupted"

\* C9 (as claimed): a call that ended on a WouldBlock of the transport returns
\* a would_block result, distinct from the ok of a drained queue.
C9_WouldBlockDistinct == wr_blocked => wr_result = "would_block"

\* C9 (amended): a call that ended on a WouldBlock of the transport returns
\* ok, the result of a drained queue, and keeps the unfinished message as
\* current_write.
C9_WouldBlockReturnsOk ==
    wr_blocked => (wr_result = "ok" /\ current_write # <<>>)

\* C9 witness: a write stopped by WouldBlock in the middle of a message
C9_Witness ==
    /\ wr_blocked
    /\ wr_result = "ok"
    /\ Len(CurrentBytes) > 0
    /\ Len(CurrentBytes) < Len(OneShot(current_write[1]))

\* C10: parsing the serialized table of ws with an empty vector returns Done
\* with nothing left over and yields the lengths of ws times 8, in order.
C10_HeaderRoundTrip ==
    c_pc = "parsed" =>
        /\ c_res.tag = "Done"
        /\ c_res.rest = <<>>
        /\ c_res.lengths = [k \in 1..Len(c_ws) |-> c_ws[k] * 8]

\* C10 witness: a table with an even number of segments (so with a pad) and
\* a length above one byte has been serialized and parsed
C10_Witness ==
    /\ c_pc = "parsed"
    /\ Len(c_ws) = 2
    /\ c_ws[2] = 65536
    /\ c_res.tag = "Done"

\* the on-wire segment count of the parser's input, as 16 bit halves
WireCount ==
    [lo |-> c_bytes[1] + 256 * c_bytes[2], hi |-> c_bytes[3] + 256 * c_bytes[4]]

\* the on-wire count plus one, modulo 2^32
AdjustedCount ==
    [lo |-> (WireCount.lo + 1) % Half,
     hi |-> (WireCount.hi + ((WireCount.lo + 1) \div Half)) % Half]

AdjustedIsZero == WireCount.lo = Half - 1 /\ WireCount.hi = Half - 1

AdjustedTooMany ==
    /\ ~AdjustedIsZero
    /\ (WireCount.hi > 0 \/ WireCount.lo >= SEGMENT_COUNT_LIMIT - 1)

\* C11: on an input of at least 4 bytes parse_segment_table returns Error
\* exactly when the on-wire count plus one modulo 2^32 is 0 or at least 512,
\* with that number as the error code, whatever follows the first four bytes;
\* read_message on the same header fails with "0 segments in message" exactly
\* for the code 0 and with "too many segments in message" for the other codes.
C11_SegmentCountValidation ==
    /\ (c_pc = "parsed" /\ Len(c_bytes) >= 4) =>
          /\ (c_res.tag = "Error") <=> (AdjustedIsZero \/ AdjustedTooMany)
          /\ (c_res.tag = "Error") => (c_res.code = AdjustedCount)
    /\ (Len(c_bytes) >= 4 /\ buf = 1 /\ buf_offset = 0) =>
          /\ (rd_result = "zero_segments") => AdjustedIsZero
          /\ (rd_result = "too_many_segments") => AdjustedTooMany
          /\ (rd_result \notin {"none", "WouldBlock", "Interrupted", "UnexpectedEOF"}
                /\ AdjustedIsZero) => (rd_result = "zero_segments")
          /\ (rd_result \notin {"none", "WouldBlock", "Interrupted", "UnexpectedEOF"}
                /\ AdjustedTooMany) => (rd_result = "too_many_segments")

\* C11 witness: a header with on-wire count 0xFFFFFFFF and bytes after it has
\* been parsed with error code 0 and read_message has failed on it
C11_Witness ==
    /\ c_pc = "parsed"
    /\ Len(c_bytes) > 4
    /\ c_res.tag = "Error"
    /\ c_res.code = ToU32(0)
    /\ rd_result = "zero_segments"

\* the parser's input starts with the on-wire count n
WireIs(n) == Len(c_bytes) >= 4 /\ WireCount = ToU32(n)

\* C12 (as claimed): a complete header with on-wire count 511 parses, on-wire
\* 512 fails with invalid segment count 512, on-wire 0xFFFFFFFF fails with
\* invalid segment count 0.
C12_SegmentCountBoundary ==
    c_pc = "parsed" =>
        /\ (WireIs(511) /\ Len(c_bytes) >= 4 * 512 + 8) => (c_res.tag = "Done")
        /\ WireIs(512) => (c_res.tag = "Error" /\ c_res.code = ToU32(512))
        /\ (Len(c_bytes) >= 4 /\ AdjustedIsZero) =>
              (c_res.tag = "Error" /\ c_res.code = ToU32(0))

\* C12 (amended): a complete header with on-wire count 510 parses into 511
\* lengths, on-wire 511 fails with invalid segment count 512, on-wire 512
\* fails with invalid segment count 513, on-wire 0xFFFFFFFF fails with
\* invalid segment count 0.
C12_SegmentCountBoundaryOnWire ==
    c_pc = "parsed" =>
        /\ (WireIs(510) /\ Len(c_bytes) >= 4 * 511 + 4) =>
              (c_res.tag = "Done" /\ Len(c_res.lengths) = 511)
        /\ WireIs(511) => (c_res.tag = "Error" /\ c_res.code = ToU32(512))
        /\ WireIs(512) => (c_res.tag = "Error" /\ c_res.code = ToU32(513))
        /\ (Len(c_bytes) >= 4 /\ AdjustedIsZero) =>
              (c_res.tag = "Error" /\ c_res.code = ToU32(0))

\* C12 witness: a complete table for 512 segments with on-wire count 511 has
\* been parsed and refused
C12_Witness ==
    /\ c_pc = "parsed"
    /\ WireIs(511)
    /\ Len(c_bytes) >= 4 * 512 + 8
    /\ c_res.tag = "Error"

\* the message the next header on the transport belongs to, while no decode
\* error has put the stream out of step with the source
NextIndex == Len(rd_delivered) + 1

\* the sum of the segment byte lengths of the k-th source message
TotalLen(k) == Sum(SegmentWords(rd_src.msgs[k])) * BYTES_PER_WORD

\* the segment byte lengths of the k-th source message, in table order
ByteLens(k) ==
    [s \in 1..Len(rd_src.msgs[k]) |-> Len(rd_src.msgs[k][s])]

\* C13: a call of read_message that starts at a message boundary and parses the
\* header of the next message fails with "message is too large" exactly when
\* the sum of the segment byte lengths exceeds traversal_limit_in_words * 8;
\* it then has read no segment (no view taken, every length still pending),
\* and a message within the limit, the limit itself included, is never
\* refused.
C13_TraversalLimit ==
    [][(/\ ~rd_decode_failed
        /\ remaining_segments = <<>>
        /\ NextIndex <= Len(rd_src.msgs))
       => /\ (rd_result' = "too_large"
                => /\ TotalLen(NextIndex) > traversal_limit_in_words * 8
                   /\ segments' = <<>>
                   /\ rd_delivered' = rd_delivered
                   /\ remaining_segments' = ByteLens(NextIndex))
          /\ (TotalLen(NextIndex) > traversal_limit_in_words * 8
                => rd_result' \in {"too_large", "WouldBlock", "Interrupted",
                                   "UnexpectedEOF", "panic"})
          /\ (TotalLen(NextIndex) <= traversal_limit_in_words * 8
                => rd_result' # "too_large")]_vars

\* C13 witness: a first message of exactly the limit has been returned and the
\* second, one word above the limit, has been refused
C13_Witness ==
    /\ Len(rd_delivered) = 1
    /\ Len(rd_src.msgs) >= 2
    /\ TotalLen(1) = traversal_limit_in_words * 8
    /\ TotalLen(2) = traversal_limit_in_words * 8 + 8
    /\ rd_result = "too_large"
    /\ remaining_segments = ByteLens(2)
    /\ DeliveredBytes(1) = rd_src.msgs[1]

\* the bytes of the active slab that read_message has not consumed yet
UnreadBytes == Drop(slabs[buf].data, Min(buf_offset, Len(slabs[buf].data)))

\* the framing of the source messages from the k-th on, and what follows them
FramingFrom(k) ==
    Concat([i \in 1..(Len(rd_src.msgs) - k + 1) |->
               write_message_segments(rd_src.msgs[k + i - 1])])
        \o rd_src.trailer

\* the stream stands in front of the header of the next message
AtBoundary ==
    /\ remaining_segments = <<>>
    /\ segments = <<>>
    /\ UnreadBytes \o rd_wire = FramingFrom(NextIndex)

\* the stream stands inside the next message: the segments read so far are
\* its first ones, the pending lengths are those of the others (last first),
\* and the unread bytes start at the first pending segment
InMessage ==
    /\ NextIndex <= Len(rd_src.msgs)
    /\ Len(segments) + Len(remaining_segments) = Len(rd_src.msgs[NextIndex])
    /\ \A i \in 1..Len(segments) :
          Buf_deref(slabs, segments[i]) = rd_src.msgs[NextIndex][i]
    /\ remaining_segments =
          Reverse(Drop(ByteLens(NextIndex), Len(segments)))
    /\ UnreadBytes \o rd_wire =
          Concat(Drop(rd_src.msgs[NextIndex], Len(segments)))
              \o FramingFrom(NextIndex + 1)

\* a later call of read_message can pick the stream up where it stands
Resumable == AtBoundary \/ InMessage

\* C14: next returns None exactly when read_message failed with WouldBlock; a
\* message, a decode error, an unexpected end of input and any other io error
\* are returned as Some; and after a None the stream stands at a position of
\* the framing from which the next call can resume.
C14_IteratorMapping ==
    /\ (rd_next = "None" <=> rd_result = "WouldBlock")
    /\ (rd_result \in ({"msg", "Interrupted", "UnexpectedEOF"} \cup DecodeErrors)
          => rd_next = "Some")
    /\ ((rd_next = "None" /\ ~rd_decode_failed) => Resumable)

\* C14 witness: next returned None in the middle of a segment, with part of
\* the segment in the slab and the rest still on the transport
C14_Witness ==
    /\ rd_next = "None"
    /\ rd_result = "WouldBlock"
    /\ InMessage
    /\ remaining_segments # <<>>
    /\ UnreadBytes # <<>>
    /\ rd_wire # <<>>

\* the live handles on slab b: the MutBuf when b is the active slab, and every
\* view (original or clone) into b
Handles(b) ==
    (IF buf = b THEN 1 ELSE 0)
        + Cardinality({i \in DOMAIN segments : segments[i].slab = b})

\* the count of every slab is the number of its handles, a slab has been
\* deallocated once when it has no handle and never otherwise, and no view
\* points into a deallocated slab
CountsHandles ==
    /\ \A b \in DOMAIN slabs :
          /\ slabs[b].rc = Handles(b)
          /\ slabs[b].freed = IF Handles(b) = 0 THEN 1 ELSE 0
    /\ \A i \in DOMAIN segments : slabs[segments[i].slab].freed = 0

\* C15: the reference count of a slab always equals the number of its live
\* handles; the storage is deallocated exactly once, exactly when that number
\* reaches zero; no view refers to deallocated storage, so a view stays
\* readable after fill_or_replace replaced its slab or the MutBuf was dropped;
\* and a deallocated slab is never touched again.
C15_SlabLifetime ==
    /\ []CountsHandles
    /\ [][\A b \in DOMAIN slabs : slabs[b].freed > 0 => slabs'[b] = slabs[b]]_vars

\* C15 witness: the first slab was replaced, the MutBuf was then dropped and
\* the second slab deallocated, and a view into the first slab, its only
\* handle, still shows its two bytes
C15_Witness ==
    /\ buf = 0
    /\ Len(slabs) = 2
    /\ slabs[2].freed = 1
    /\ \E i \in DOMAIN segments :
          /\ segments[i].slab = 1
          /\ slabs[1].rc = 1 /\ slabs[1].freed = 0
          /\ Len(Buf_deref(slabs, segments[i])) = 2

\* the views alive before and after a step
LastingViews ==
    {v \in {segments[i] : i \in DOMAIN segments} :
        \E j \in DOMAIN segments' : segments'[j] = v}

\* C16: a step never changes a committed byte (the bytes of every slab stay a
\* prefix of what the slab holds afterwards), whatever the step is (write,
\* fill, fill_or_replace, a view taken, cloned or dropped) it leaves the bytes
\* seen through every lasting view unchanged, and a view just returned by
\* buf(offset, len), called by read_segment at its offset once the bytes are
\* there, shows the len bytes committed at [offset, offset + len): the first
\* len unread bytes.
C16_SlabStability ==
    [][/\ \A b \in DOMAIN slabs :
             b \in DOMAIN slabs' /\ IsPrefix(slabs[b].data, slabs'[b].data)
       /\ \A v \in LastingViews : Buf_deref(slabs', v) = Buf_deref(slabs, v)
       /\ (sb_call'.op = "read_segment" /\ sb_call'.res = "ok")
             => \E v \in {segments'[Len(segments')]} :
                   /\ v.len = sb_call'.amount
                   /\ v.slab = buf' /\ v.ptr + v.len = buf_offset'
                   /\ Len(Buf_deref(slabs', v)) = v.len
                   /\ Buf_deref(slabs', v)
                         = Take(Drop(slabs[buf].data, buf_offset) \o rd_wire, v.len)
                   /\ \A k \in 1..v.len :
                         Buf_deref(slabs', v)[k] = slabs'[buf'].data[v.ptr + k]]_vars

\* C16 witness: a view of the two bytes written first is alive, its slab has
\* since been replaced by a fill_or_replace that succeeded, and the view still
\* shows the two bytes
C16_Witness ==
    /\ sb_call.op = "fill_or_replace" /\ sb_call.res = "ok"
    /\ buf = 2
    /\ \E i \in DOMAIN segments :
          /\ segments[i].slab = 1
          /\ segments[i].ptr = 0
          /\ Buf_deref(slabs, segments[i]) = <<201, 202>>

\* the first call of next() has returned the source message, segment by
\* segment
FirstCallReturnsMessage ==
    rd_result # "none" =>
        /\ Len(rd_delivered) >= 1
        /\ Len(rd_delivered[1]) = Len(rd_src.msgs[1])
        /\ \A i \in 1..Len(rd_src.msgs[1]) :
              Buf_deref(slabs, rd_delivered[1][i]) = rd_src.msgs[1][i]

\* C17 (as claimed): for every non-empty list of segments framed canonically
\* on a transport whose reads return all that is available and fits, the
\* first call of next() returns the message, segment i equal to source
\* segment i.
C17_ReadsCanonical == FirstCallReturnsMessage

\* C17 (amended): the same for every non-empty list of fewer than 512
\* segments whose summed byte length is within traversal_limit_in_words * 8.
C17_ReadsCanonicalWithinLimits ==
    (/\ Len(rd_src.msgs[1]) < SEGMENT_COUNT_LIMIT
     /\ TotalLen(1) <= traversal_limit_in_words * 8)
        => FirstCallReturnsMessage

\* C17 witness: a message of two segments of different lengths, the second
\* larger than the slab, has been returned by the first call with the
\* source's bytes, the slab having been replaced on the way
C17_Witness ==
    /\ rd_result = "msg"
    /\ Len(rd_delivered) = 1
    /\ SegmentWords(rd_src.msgs[1]) = <<1, 600>>
    /\ Len(slabs) = 2
    /\ DeliveredBytes(1) = rd_src.msgs[1]

\* the canonical framing spelled out: the count minus one, each word length,
\* four zero bytes when the count is even, then the payloads end to end
CanonicalFraming(m) ==
    write_u32(Len(m) - 1)
        \o Concat([i \in 1..Len(m) |-> write_u32(Len(m[i]) \div BYTES_PER_WORD)])
        \o (IF Len(m) % 2 = 0 THEN <<0, 0, 0, 0>> ELSE <<>>)
        \o Concat(m)

\* C18: for every non-empty list of segments the bytes produced by
\* serialize_segment_table followed by write_message from (0, 0), on a writer
\* that accepts all bytes, are the bytes of the canonical encoder and are the
\* canonical framing spelled out; the table is 4 * count + (8 if the count is
\* even, else 4) bytes long, a multiple of 8.
C18_WritesCanonical ==
    /\ c_pc \in {"table", "written"} =>
          /\ Len(c_bytes) = 4 * Len(c_ws) + (IF Len(c_ws) % 2 = 0 THEN 8 ELSE 4)
          /\ Len(c_bytes) % 8 = 0
    /\ c_pc = "written" =>
          /\ wr_result = "ok"
          /\ wr_out = write_message_segments(MakeMessage(1, c_ws))
          /\ wr_out = CanonicalFraming(MakeMessage(1, c_ws))

\* C18 witness: a message of two segments, the first empty, has been written;
\* its table carries the pad and the payload follows it directly
C18_Witness ==
    /\ c_pc = "written"
    /\ c_ws = <<0, 2>>
    /\ wr_result = "ok"
    /\ Len(wr_out) = 16 + 16
    /\ SubSeq(wr_out, 1, 16) = <<1, 0, 0, 0, 0, 0, 0, 0, 2, 0, 0, 0, 0, 0, 0, 0>>

\* C19: when fill_or_replace(reader, from, amount) returns ok, at least amount
\* committed bytes lie at and after the new from; the bytes after the new from
\* are the bytes that were buffered after the old from, unchanged, followed by
\* the bytes taken from the reader, in order; and the slab is replaced, with
\* from reset to 0, exactly when the missing byte count exceeds the remaining
\* capacity of the old slab (from is left alone otherwise).
C19_FillOrReplacePost ==
    [][(sb_call'.op = "fill_or_replace" /\ sb_call'.res = "ok")
       => /\ Len(slabs'[buf'].data) - buf_offset' >= sb_call'.amount
          /\ \E k \in 0..Len(rd_wire) :
                /\ rd_wire' = Drop(rd_wire, k)
                /\ Drop(slabs'[buf'].data, buf_offset')
                      = Drop(slabs[buf].data, buf_offset) \o Take(rd_wire, k)
          /\ (buf' # buf)
                <=> (sb_call'.amount - (Len(slabs[buf].data) - buf_offset)
                        > slabs[buf].cap - Len(slabs[buf].data))
          /\ buf_offset' = IF buf' # buf THEN 0 ELSE buf_offset]_vars

\* C19 witness: fill_or_replace has returned ok after replacing the slab: the
\* new slab starts, at from = 0, with a byte carried over from the old one and
\* ends with a byte taken from the reader
C19_Witness ==
    /\ sb_call.op = "fill_or_replace" /\ sb_call.res = "ok"
    /\ buf = 2 /\ buf_offset = 0
    /\ Len(slabs[2].data) >= sb_call.amount
    /\ slabs[2].data[1] \in 201..203
    /\ slabs[2].data[Len(slabs[2].data)] \in 1..MaxSlabWire
    /\ rd_wire # <<>>

\* C20: the assertion at the top of the loop of read_segment_table never
\* fails: no call of read_message ends in the panic raised there, with the
\* lengths pushed by an incomplete parse still in remaining_segments.
C20_AssertHolds ==
    ~(rd_result = "panic" /\ remaining_segments # <<>> /\ segments = <<>>)

(***************************************************************************)
(* Retry of a segment.                                                     *)
(***************************************************************************)
\* the segment byte lengths of the message in progress, in table order: those
\* of the views taken, then the pending ones
SegmentLens ==
    [i \in 1..Len(segments) |-> segments[i].len] \o Reverse(remaining_segments)

\* the views taken show the first segments of the k-th source message
ViewsShow(k) ==
    \A i \in 1..Len(segments) :
        /\ i <= Len(rd_src.msgs[k])
        /\ Buf_deref(slabs, segments[i]) = rd_src.msgs[k][i]

\* C21: a call of read_message that ends in WouldBlock inside the segment loop
\* leaves the lengths and the views as they were before the segment it blocked
\* on: the views it was entered with are kept, in place and showing the same
\* bytes, each segment it completed before blocking moved one length from the
\* top of remaining_segments to one view of that length at the back of
\* segments, and the length of the blocked segment stays on top; a call that
\* blocks on the first segment it attempts changes neither vector, and a call
\* that read the header itself leaves the lengths of the table, none lost and
\* none twice.
C21_SegmentRetry ==
    [][(rd_result' = "WouldBlock" /\ remaining_segments' # <<>>)
       => /\ rd_delivered' = rd_delivered
          /\ IsPrefix(segments, segments')
          /\ \A i \in 1..Len(segments) :
                Buf_deref(slabs', segments[i]) = Buf_deref(slabs, segments[i])
          /\ (remaining_segments # <<>>
                => /\ IsPrefix(remaining_segments', remaining_segments)
                   /\ SegmentLens' = SegmentLens)
          /\ (remaining_segments = <<>>
                => /\ segments = <<>>
                   /\ SegmentLens' = ByteLens(NextIndex)
                   /\ ViewsShow(NextIndex)')]_vars

\* C21 witness: the call blocked on the second segment with part of it
\* buffered and the view of the first segment kept
C21_Witness ==
    /\ rd_result = "WouldBlock"
    /\ Len(segments) = 1 /\ remaining_segments # <<>>
    /\ buf_offset < Len(slabs[buf].data)
    /\ ViewsShow(1)

(***************************************************************************)
(* The write cursor.                                                       *)
(***************************************************************************)
\* the length of the unit current_segment points at: the segment table, a
\* segment, or nothing once the last segment is written
UnitLen ==
    IF current_segment[1] = 0 THEN Len(current_segment_table)
    ELSE IF current_segment[1] <= Len(current_write[1])
    THEN Len(current_write[1][current_segment[1]])
    ELSE 0

\* the position in the serialization of the message in progress that
\* current_segment encodes
CursorPosition ==
    IF current_segment[1] = 0 THEN current_segment[2]
    ELSE Len(current_segment_table)
           + Sum([s \in 1..Min(current_segment[1] - 1, Len(current_write[1])) |->
                     Len(current_write[1][s])])
           + current_segment[2]

\* C22: whenever a call of write or write_message has returned (ok, also after
\* WouldBlock, or with an error) and a message is in progress, the transport
\* has accepted exactly CursorPosition bytes of that message, the segment
\* index is at most the number of segments plus one, and the offset is at
\* most the length of the unit being written.  The same holds in the state a
\* call that does not return keeps going round in.
C22_WriteCursor ==
    current_write # <<>>
        => /\ Len(CurrentBytes) = CursorPosition
           /\ current_segment[1] <= Len(current_write[1]) + 1
           /\ current_segment[2] <= UnitLen
           /\ current_segment_table
                  = serialize_segment_table(SegmentWords(current_write[1]))

\* C22 witness: a call failed on an error of the transport in the middle of
\* the second segment, after an earlier call blocked inside the header
C22_Witness ==
    /\ wr_result \in {"WriteZero", "Other"}
    /\ current_write # <<>>
    /\ current_segment[1] = 2
    /\ current_segment[2] > 0 /\ current_segment[2] < UnitLen
    /\ Len(CurrentBytes) = CursorPosition

(***************************************************************************)
(* write_message.                                                          *)
(***************************************************************************)
\* the message passed to the call of write_message that just returned
Enqueued == wr_enqueued[Len(wr_enqueued)]

\* C23: a call of write_message appends its message at the back of
\* write_queue; with a message in progress it writes nothing to the transport,
\* whatever the transport would accept, leaves current_write,
\* current_segment_table and current_segment as they were and returns ok; with
\* none in progress its outcome (result, stream and transport) is that of one
\* call of write on the stream with the message appended.
C23_Enqueue ==
    [][wr_enqueued' # wr_enqueued
       => /\ wr_enqueued' = Append(wr_enqueued, Enqueued')
          /\ wr_call' = "write_message"
          /\ (current_write # <<>>
                => /\ write_queue' = Append(write_queue, Enqueued')
                   /\ wr_out' = wr_out
                   /\ current_write' = current_write
                   /\ current_segment_table' = current_segment_table
                   /\ current_segment' = current_segment
                   /\ wr_result' = "ok")
          /\ (current_write = <<>>
                => \E sc \in WriteScripts :
                      \E r \in {MessageStream_write(
                                   [WriteState EXCEPT
                                      !.write_queue = Append(@, Enqueued')],
                                   [out |-> wr_out, answers |-> sc.answers,
                                    last |-> sc.last])} :
                         /\ wr_result' = r.res
                         /\ WriteState' = r.w
                         /\ wr_out' = r.wio.out)]_vars

\* C23 witness: write_message returned with its message waiting in the queue
\* behind a message that is partly written
C23_Witness ==
    /\ wr_call = "write_message"
    /\ Len(wr_enqueued) = 2
    /\ write_queue = <<Enqueued>>
    /\ current_write = <<wr_enqueued[1]>>
    /\ CursorPosition > 0 /\ CursorPosition < Len(OneShot(current_write[1]))

(***************************************************************************)
(* The parser's outcome by the length of its input.                        *)
(***************************************************************************)
\* the count field of the parser's input is one of 1 to 511 segments
ValidCount == Len(c_bytes) >= 4 /\ ~AdjustedIsZero /\ ~AdjustedTooMany

\* the bytes of a header of c segments: the count field, c entries, and a
\* pad when c is even
HeaderLength(c) == 4 * c + (IF c % 2 = 0 THEN 8 ELSE 4)

\* the byte lengths the first c entries of the input's table stand for
EntryLens(c) ==
    [k \in 1..c |->
        (c_bytes[4 * k + 1] + 256 * c_bytes[4 * k + 2]
            + 65536 * c_bytes[4 * k + 3] + 16777216 * c_bytes[4 * k + 4])
          * BYTES_PER_WORD]

\* the input with the four bytes before position n replaced by pad
WithPad(n, pad) == Take(c_bytes, n - 4) \o pad \o Drop(c_bytes, n)

PadValues == {<<0, 0, 0, 0>>, <<1, 2, 3, 4>>, <<255, 255, 255, 255>>}

\* C24: on an input whose count field is valid, of c segments,
\* parse_segment_table returns Done exactly when the input has at least
\* HeaderLength(c) bytes and Incomplete otherwise, and Incomplete on fewer
\* than 4 bytes; on Done the lengths are those of the c entries, the suffix
\* returned starts at byte HeaderLength(c), and for even c the result is the
\* same whatever the four pad bytes are.
C24_ParseOutcome ==
    c_pc = "parsed" =>
        /\ Len(c_bytes) < 4 => c_res.tag = "Incomplete"
        /\ ValidCount =>
             LET c == WireCount.lo + 1
             IN  /\ c_res.tag \in {"Done", "Incomplete"}
                 /\ (c_res.tag = "Done") <=> (Len(c_bytes) >= HeaderLength(c))
                 /\ (c_res.tag = "Done") =>
                       /\ c_res.rest = Drop(c_bytes, HeaderLength(c))
                       /\ c_res.lengths = EntryLens(c)
                       /\ (c % 2 = 0 =>
                             \A pad \in PadValues :
                                parse_segment_table(WithPad(HeaderLength(c), pad), <<>>)
                                    = c_res)

\* C24 witness: a table of two segments with a pad that is not zero has been
\* parsed to the end
C24_Witness ==
    /\ c_pc = "parsed"
    /\ c_bytes = <<1, 0, 0, 0, 1, 0, 0, 0, 1, 0, 0, 0, 1, 0, 0, 0>>
    /\ c_res.tag = "Done"
    /\ c_res.lengths = <<8, 8>>
    /\ c_res.rest = <<>>

(***************************************************************************)
(* The size carried by Incomplete.                                         *)
(***************************************************************************)
\* the parser's input can be extended to a header with a valid count
PrefixOfValid ==
    \/ ValidCount
    \/ /\ Len(c_bytes) < 4
       /\ \A j \in 1..Len(c_bytes) :
             j = 1 \/ (j = 2 /\ c_bytes[j] <= 1) \/ c_bytes[j] = 0

\* the bytes missing from the input to the end of the header, or to the end
\* of the count field while that is not complete
MissingBytes ==
    IF Len(c_bytes) < 4 THEN 4 - Len(c_bytes)
    ELSE HeaderLength(WireCount.lo + 1) - Len(c_bytes)

\* C25 (as claimed): the size carried by an Incomplete result on a proper
\* prefix of a valid header is at most the number of bytes that are missing.
C25_HintIsLowerBound ==
    (c_pc = "parsed" /\ c_res.tag = "Incomplete" /\ PrefixOfValid)
        => c_res.needed <= MissingBytes

\* C25 (amended): the size carried by an Incomplete result is always 4, the
\* size of the field (count, entry or pad) the input ends in, whatever number
\* of bytes is missing: it is at least the number of bytes missing from that
\* field, it exceeds the number of bytes missing from the header when the
\* last field is cut after its first byte, and read_segment_table asks
\* fill_or_replace for max(8, 4) = 8 bytes in every case.
C25_HintIsFieldSize ==
    (c_pc = "parsed" /\ c_res.tag = "Incomplete")
        => /\ c_res.needed = 4
           /\ c_res.needed >= 4 - (Len(c_bytes) % 4)
           /\ FillAmount(c_res.needed) = 8
           /\ (PrefixOfValid /\ MissingBytes < 4 => c_res.needed > MissingBytes)

\* C25 witness: a header of two segments cut after the first byte of its pad
\* has been parsed: three bytes are missing and the result carries 4
C25_Witness ==
    /\ c_pc = "parsed"
    /\ c_bytes = <<1, 0, 0, 0, 1, 0, 0, 0, 1, 0, 0, 0, 1>>
    /\ c_res.tag = "Incomplete"
    /\ c_res.needed = 4
    /\ MissingBytes = 3

(***************************************************************************)
(* A transport write of zero bytes, and an interrupted one.                *)
(***************************************************************************)
\* bytes of the message in progress are still to be written
BytesRemain ==
    current_write # <<>> /\ CursorPosition < Len(OneShot(current_write[1]))

\* a call of write on the current stream under the script sc: its result, the
\* stream it leaves and the bytes on the transport
WriteUnder(sc) ==
    LET r == MessageStream_write(WriteState,
                 [out |-> wr_out, answers |-> sc.answers, last |-> sc.last])
    IN  [res |-> r.res, w |-> r.w, out |-> r.wio.out]

\* the script sc with one write failing with Interrupted put before it
InterruptedFirst(sc) ==
    [sc EXCEPT !.answers = <<[k |-> "Interrupted", n |-> 0]>> \o @]

\* C26: a call of write that has failed with WriteZero leaves a message in
\* progress with bytes remaining and the cursor at the bytes accepted; in
\* every state with bytes remaining, a call whose first transport write
\* answers Ok(0) fails with WriteZero and leaves the transport and the stream
\* as they were, and a transport write failing with Interrupted makes no
\* difference to the call: whatever the transport answers afterwards, the
\* result, the stream and the bytes written are those of the call without it.
C26_ZeroWrite ==
    /\ wr_result = "WriteZero"
          => (BytesRemain /\ Len(CurrentBytes) = CursorPosition)
    /\ (WriteRunning /\ BytesRemain)
          => /\ WriteUnder([answers |-> <<>>, last |-> "Zero"])
                   = [res |-> "WriteZero", w |-> WriteState, out |-> wr_out]
             /\ \A sc \in RetryScripts :
                   WriteUnder(InterruptedFirst(sc)) = WriteUnder(sc)

\* C26 witness: a call has failed with WriteZero inside the first segment,
\* part of which the transport had accepted
C26_Witness ==
    /\ wr_result = "WriteZero"
    /\ wr_call = "write"
    /\ current_segment[1] = 1
    /\ current_segment[2] > 0
    /\ BytesRemain

(***************************************************************************)
(* The end of input.                                                       *)
(***************************************************************************)
\* the reader is at the end of input
Drained == rd_closed /\ rd_wire = <<>>

\* nothing of a message is buffered or pending
NothingPartial ==
    /\ remaining_segments = <<>> /\ segments = <<>>
    /\ buf_offset = Len(slabs[buf].data)

\* the result of a call of read_message on the current stream, the reader
\* answering every read the script allows
ReadUnder(chunks) ==
    read_message(ReadState,
                 [wire |-> rd_wire, chunks |-> chunks, last |-> "WouldBlock",
                  closed |-> rd_closed]).res

\* C27: a call of read_message fails with UnexpectedEOF only at the end of
\* input, without returning a message, and the bytes it took from the reader
\* before are in the active slab: the slab ends with the last byte read, and
\* holds all the bytes it held and all those read when it was not replaced
\* (a replacement keeps the unread tail); at the end of input a call that
\* reaches the reader never ends in WouldBlock, and with nothing partial
\* buffered, at a message boundary, it fails with UnexpectedEOF.
C27_EndOfInput ==
    [][/\ rd_result' = "UnexpectedEOF"
            => /\ rd_closed /\ rd_wire' = <<>>
               /\ rd_delivered' = rd_delivered
               /\ \E k \in 0..Len(slabs[buf].data \o rd_wire) :
                     /\ slabs'[buf'].data = Drop(slabs[buf].data \o rd_wire, k)
                     /\ (buf' = buf => k = 0)
       /\ (Drained /\ rd_result # "panic")
            => \A c \in RetryChunks(rd_wire) :
                  /\ ReadUnder(<<c>>) \notin {"WouldBlock", "Interrupted"}
                  /\ (NothingPartial => ReadUnder(<<c>>) = "UnexpectedEOF")]_vars

\* C27 witness: after a message was returned, a call at the end of input, on
\* the message boundary and with nothing buffered, failed with UnexpectedEOF
C27_Witness ==
    /\ rd_result = "UnexpectedEOF"
    /\ Drained /\ NothingPartial
    /\ Len(rd_delivered) >= 1

(***************************************************************************)
(* Appends.                                                                *)
(***************************************************************************)
\* the room left in the active slab
Room == slabs[buf].cap - Len(slabs[buf].data)

\* C28: a call of MutBuf::write returns min(len(bytes), capacity - write
\* offset), has copied exactly that many bytes of its argument, from its
\* front, behind the bytes the slab held, and has changed nothing else of the
\* slab; so the write offset never decreases and never exceeds the capacity,
\* and a write to a full slab returns 0.  A slab built by with_capacity(c)
\* with c >= 8 has a capacity of c - 8 bytes.
C28_Append ==
    [][/\ sb_call'.op = "write"
            => /\ sb_call'.amount = Min(Len(c_bytes'), Room)
               /\ slabs'[buf].data
                     = slabs[buf].data \o Take(c_bytes', sb_call'.amount)
               /\ slabs' = [slabs EXCEPT ![buf].data = slabs'[buf].data]
               /\ Len(slabs'[buf].data) >= Len(slabs[buf].data)
               /\ Len(slabs'[buf].data) <= slabs[buf].cap
               /\ (Room = 0 => sb_call'.amount = 0)
       /\ Len(slabs[buf].data) <= slabs[buf].cap
       /\ \A c \in AppendCaps :
             c >= REFCOUNT_LEN => MutBuf_with_capacity(c).cap = c - REFCOUNT_LEN
       /\ slabs[buf].cap \in {Max(c, REFCOUNT_LEN) - REFCOUNT_LEN : c \in AppendCaps}]_vars

\* C28 witness: the slab of with_capacity(16) holds 8 bytes, the first 8 of
\* an 11-byte argument, and a further write of 11 bytes has returned 0
C28_Witness ==
    /\ sb_call.op = "write" /\ sb_call.amount = 0
    /\ Len(c_bytes) = 11
    /\ slabs[buf].cap = 8
    /\ slabs[buf].data = Take(c_bytes, 8)

(***************************************************************************)
(* The vector of lengths after a parse that did not finish.                *)
(***************************************************************************)
\* C29: parse_segment_table, called with an empty vector, leaves the vector
\* empty unless it returns Done: no length is in it after Incomplete or Error.
C29_LengthsOnlyOnDone ==
    (c_pc = "parsed" /\ c_res.tag # "Done") => c_res.lengths = <<>>

(***************************************************************************)
(* The read cursor.                                                        *)
(***************************************************************************)
\* the views the stream has taken and that are still held, by the stream or
\* by the messages it returned
ViewsTaken ==
    {segments[i] : i \in DOMAIN segments}
        \cup UNION {{rd_delivered[k][i] : i \in DOMAIN rd_delivered[k]} :
                       k \in DOMAIN rd_delivered}

\* the state in which the assertion at the head of read_segment_table's loop
\* fails: the parse of the unread bytes was Incomplete and left the lengths
\* of the complete entries in remaining_segments
HeaderAssertFailed ==
    /\ remaining_segments # <<>>
    /\ parse_segment_table(UnreadBytes, <<>>).tag = "Incomplete"
    /\ parse_segment_table(UnreadBytes, <<>>).lengths = remaining_segments

\* C30: in every state reached through calls of read_message, after
\* WouldBlock, Interrupted, the end of input, a slab replacement or a decode
\* error as well, buf_offset is at most the write offset of the active slab,
\* every view the stream took lies within the bytes committed to its slab
\* (buf_offset + len <= write offset when it was taken), and the only
\* assertion that fails is the one on remaining_segments at the head of the
\* header loop, so neither the one of fill_or_replace, nor the one of
\* MutBuf::buf, nor the slice buf[buf_offset..].
C30_ReadCursor ==
    /\ buf_offset <= Len(slabs[buf].data)
    /\ \A v \in ViewsTaken :
          /\ v.slab \in DOMAIN slabs
          /\ v.ptr + v.len <= Len(slabs[v.slab].data)
    /\ rd_result = "panic" => HeaderAssertFailed

\* C30 witness: a message was refused as too large, the stream went on,
\* replaced its slab, took a view that fills the new slab, replaced that
\* slab too and blocked on the next segment
C30_Witness ==
    /\ rd_decode_failed
    /\ rd_result = "WouldBlock"
    /\ buf = 3 /\ buf_offset <= Len(slabs[buf].data)
    /\ \E v \in ViewsTaken :
          v.slab = 2 /\ v.len > 0 /\ v.ptr + v.len = Len(slabs[2].data)

(***************************************************************************)
(* The precondition of fill.                                               *)
(***************************************************************************)
\* amounts asked of fill_or_replace: a byte, a word, around the capacity of
\* the default slab, and the large segment
ProbeAmounts == {1, 8, 4087, 4088, 4089, 4096, 4800, 4801}

\* a reader that is not ready
NotReady == [wire |-> rd_wire, chunks |-> <<>>, last |-> "WouldBlock",
             closed |-> rd_closed]

\* the slab on which fill_or_replace(amount) calls fill: the active slab, or
\* the one that has just replaced it
FillTarget(amount) ==
    IF NeedsReplace(amount - (Len(slabs[buf].data) - buf_offset), slabs[buf])
    THEN replace_slab(slabs, buf, buf_offset, amount)[Len(slabs) + 1]
    ELSE slabs[buf]

\* C31: in every state the stream reaches, for every amount, the call of fill
\* that fill_or_replace(from = buf_offset, amount) makes is given a slab with
\* room for the bytes it asks for, needed <= capacity - write offset, both on
\* the slab that is kept and on the one that replaces it, which has the
\* capacity max(4096, amount + 8) - 8 and holds the unread tail; so the
\* assertion of fill does not fail, and a call on a reader that is not ready
\* ends in WouldBlock.
C31_FillPrecondition ==
    rd_result # "panic" =>
        \A amount \in ProbeAmounts :
            LET buffered_amount == Len(slabs[buf].data) - buf_offset
                needed == amount - buffered_amount
                replaced == NeedsReplace(needed, slabs[buf])
                target == FillTarget(amount)
            IN  buffered_amount < amount =>
                    /\ needed <= target.cap - Len(target.data)
                    /\ replaced =>
                          /\ target.cap = Max(BUF_SIZE, amount + REFCOUNT_LEN)
                                             - REFCOUNT_LEN
                          /\ target.data = Drop(slabs[buf].data, buf_offset)
                    /\ fill(target, NotReady, needed).res = "WouldBlock"
                    /\ fill_or_replace(slabs, buf, NotReady, buf_offset, amount).res
                          = "WouldBlock"

\* C31 witness: the stream blocked right after it replaced its slab for the
\* 4800-byte segment: the new slab holds the unread tail and has room for
\* exactly the bytes that fill was asked for
C31_Witness ==
    /\ rd_result = "WouldBlock"
    /\ buf = 2 /\ buf_offset = 0
    /\ slabs[2].cap = 4800
    /\ slabs[2].data # <<>>
    /\ remaining_segments # <<>>
    /\ remaining_segments[Len(remaining_segments)] = 4800
    /\ slabs[2].cap - Len(slabs[2].data) = 4800 - Len(slabs[2].data)
    /\ Drop(slabs[1].data, Len(slabs[1].data) - Len(slabs[2].data)) = slabs[2].data

====
